---- MODULE Spec2Model ----
(***************************************************************************)
(* PDF Studio: the client-side PDF tool pages (split, extract pages,       *)
(* merge, page manager) and the helpers of app/utils/pdfHelpers.ts.        *)
(*                                                                         *)
(* Strings are sequences of one-character strings.  A document (a File     *)
(* holding a PDF) is a sequence of pages; a page is a record               *)
(* [doc, idx, rot]: the file it came from, its 0-based index there and     *)
(* its rotation in degrees.                                                *)
(***************************************************************************)
EXTENDS Integers, Sequences, FiniteSets, TLC

VARIABLES
    \* ---- parseRanges called on its own
    copy,          \* which copy of parseRanges is called: "split" or "extract"
    input,         \* the range string
    maxPage,       \* the page count it is parsed against
    result,        \* what the call returned or threw
    called,        \* whether the call has been made
    \* ---- the helpers of pdfHelpers.ts called on their own
    hFile,         \* the File argument
    hRanges,       \* the ranges argument
    hResult,       \* what the promise settled to
    hCalled,       \* which helper was called: "none", "extract", "split"
    \* ---- the split page (SplitToolPage)
    sFile,         \* file: a File or NullFile
    sPageCount,    \* pageCount: a number or NullCount
    sRangeInput,   \* rangeInput
    sPresetN,      \* presetN
    sOutputs,      \* outputs
    sIsSplitting,  \* isSplitting
    sError,        \* error: a message or NoError
    sLoads,        \* the runs of the load effect that await loadPdfDocument
    sRun,          \* the runs of handleSplit that await splitPdfByRanges
    sDownloads,    \* labels handed to downloadBlob, in order
    sEvents,       \* number of user events so far
    \* ---- the merge page (MergeToolPage)
    mItems,        \* items: the list of {id, file}
    mDragIndex,    \* dragIndex: an index or NullIndex
    mIsMerging,    \* isMerging
    mError,        \* error: a message or NoError
    mRun,          \* the runs of handleMerge that await mergePdfFiles
    mDownloads,    \* what was handed to downloadBlob, in order
    mCrashed,      \* rendering the list threw: the page is gone
    mEvents,       \* number of user events so far
    \* ---- the page manager (PageManagerToolPage)
    pFile,         \* file: a File or NullFile
    pPages,        \* pages: the list of {id, pageIndex, rotation, thumbnail}
    pPageCount,    \* pageCount: a number or NullCount
    pDragIndex,    \* dragIndex: an index or NullIndex
    pIsProcessing, \* isProcessing
    pError,        \* error: a message or NoError
    pPdfDoc,       \* pdfDoc: the pdf.js document (the File it was read from) or NullFile
    pIsLoadingThumbnails,
    pLoads,        \* runs of the load effect that await the pdf.js document
    pThumbs,       \* runs of the load effect that await Promise.all(thumbnails)
    pRotates,      \* runs of handleRotate that await generatePageThumbnail
    pRun,          \* runs of handleApply that await applyPageTransforms
    pDownloads,    \* what was handed to downloadBlob, in order
    pCrashed,      \* rendering the list threw: the page is gone
    pEvents,       \* number of user events so far
    pSelections,   \* number of those that selected a file
    pClock,        \* Date.now(), counted in loads completed
    \* ---- rotateAllPages applied again and again to its own output
    rotOrig,       \* the file first given
    rotFile,       \* the file given to the next call
    rotApplied,    \* the rotations of the calls made, in order
    \* ---- the page numbers page (PageNumbersToolPage)
    nFile,         \* file: a File or NullFile
    nPageCount,    \* pageCount: a number or NullCount
    nPosition,     \* position: "header" or "footer"
    nAlign,        \* align: "left", "center" or "right"
    nStartNumber,  \* startNumber
    nFormat,       \* format: "page-x", "x-of-n" or "x"
    nIsProcessing, \* isProcessing
    nError,        \* error: a message or NoError
    nLoads,        \* runs of the load effect that have not settled
    nRun,          \* runs of handleApply that await addPageNumbers
    nDownloads,    \* what was handed to downloadBlob, in order
    nEvents,       \* number of user events so far
    \* ---- the images to PDF page (ImagesToPdfPage)
    iImages,       \* images: the list of {id, file}
    iDragIndex,    \* dragIndex: an index or NullIndex
    iOrientation,  \* orientation: "portrait" or "landscape"
    iPageSize,     \* pageSize: "a4" or "letter"
    iIsProcessing, \* isProcessing
    iError,        \* error: a message or NoError
    iRun,          \* runs of handleGenerate that await createPdfFromImages
    iDownloads,    \* what was handed to downloadBlob, in order
    iCrashed,      \* rendering the list threw: the page is gone
    iEvents,       \* number of user events so far
    \* ---- the PDF to images page (PdfToImagesToolPage)
    dFile,         \* file: a File or NullFile
    dPageCount,    \* pageCount: a number or NullCount
    dImageFormat,  \* imageFormat: "png" or "jpg"
    dIsProcessing, \* isProcessing
    dError,        \* error: a message or NoError
    dPdfDoc,       \* pdfDoc: the pdf.js document (the File it was read from) or NullFile
    dLoads,        \* runs of loadPdf that await the pdf.js document
    dRun,          \* the run of downloadAllPages, with its position in the loop
    dDownloads,    \* the downloads triggered by a.click(), in order
    dFinished,     \* the runs of downloadAllPages that have ended, as they ended
    dEvents,       \* number of user events so far
    \* ---- extractTextFromPdf applied to bounded documents
    xPages,        \* for every page of the document its content.items
    xText,         \* what extractTextFromPdf returned
    xCalled,       \* whether it has been called
    \* ---- the text annotations page
    aFile,         \* useState<File | null>
    aPdfDoc,       \* the pdf.js document, NullFile before a load succeeds
    aCurrentPage,  \* useState<number>(1)
    aPageCount,    \* useState<number>(0)
    aAnnotations,  \* useState<Annotation[]>
    aScale,        \* useState<number>(1.5), counted in quarters: 6 is 1.5
    aEditingId,    \* useState<string | null>
    aIsProcessing, \* useState(false)
    aError,        \* useState<string | null>
    aLoads,        \* loadPdf calls awaiting getDocument
    aRun,          \* handleApply calls awaiting applyAnnotations
    aDownloads,    \* the files handed to downloadBlob: the texts drawn in each
    aPlaced,       \* for every annotation the canvas pixel and zoom of its click
    aEditStart,    \* the annotations as they were before the click that opened the input
    aKeys,         \* the keys handled by handleAnnotationKeyDown, in order
    aEvents,       \* number of user events so far
    \* ---- the edit PDF page
    eFile,         \* useState<File | null>
    ePdfDoc,       \* the pdf.js document, NullFile before a load succeeds
    eCurrentPage,  \* useState<number>(1)
    ePageCount,    \* useState<number>(0)
    eTextItems,    \* useState<TextItem[]>
    eEdits,        \* useState<TextEdit[]>
    eEditingId,    \* useState<string | null>
    eScale,        \* useState<number>(1.5), counted in quarters: 6 is 1.5
    eError,        \* useState<string | null>
    eLoads,        \* loadPdf calls awaiting pdf.js
    eClicks,       \* the clicks handled: canvas pixel, zoom and page of each
    eEvents,       \* number of user events so far
    \* ---- where the data of the selected files goes
    wTool,         \* the tool page that is open
    wFile,         \* the file selected on it, NullFile for none
    wLoaded,       \* whether pdf.js holds the file's document
    wRequests,     \* the requests made to network endpoints, in order
    wDownloads,    \* the files saved through an <a download> click, in order
    wEvents,       \* number of user events so far
    \* ---- the extract text page
    tFile,         \* useState<File | null>
    tText,         \* state.text
    tError,        \* state.error
    tIsProcessing, \* state.isProcessing
    tRun,          \* handleExtract calls awaiting extractTextFromPdf
    tStarted,      \* number of handleExtract runs started so far
    tDownloads,    \* the texts saved by handleDownloadTxt
    tEvents        \* number of user events so far

rangeVars == <<copy, input, maxPage, result, called>>

helperVars == <<hFile, hRanges, hResult, hCalled>>

splitVars == <<sFile, sPageCount, sRangeInput, sPresetN, sOutputs, sIsSplitting,
               sError, sLoads, sRun, sDownloads, sEvents>>

mergeVars == <<mItems, mDragIndex, mIsMerging, mError, mRun, mDownloads, mCrashed,
               mEvents>>

managerVars == <<pFile, pPages, pPageCount, pDragIndex, pIsProcessing, pError, pPdfDoc,
                 pIsLoadingThumbnails, pLoads, pThumbs, pRotates, pRun, pDownloads,
                 pCrashed, pEvents, pSelections, pClock>>

rotateVars == <<rotOrig, rotFile, rotApplied>>

numbersVars == <<nFile, nPageCount, nPosition, nAlign, nStartNumber, nFormat,
                 nIsProcessing, nError, nLoads, nRun, nDownloads, nEvents>>

imagesVars == <<iImages, iDragIndex, iOrientation, iPageSize, iIsProcessing, iError,
                iRun, iDownloads, iCrashed, iEvents>>

outVars == <<dFile, dPageCount, dImageFormat, dIsProcessing, dError, dPdfDoc, dLoads,
             dRun, dDownloads, dFinished, dEvents>>

textVars == <<xPages, xText, xCalled>>

annotateVars == <<aFile, aPdfDoc, aCurrentPage, aPageCount, aAnnotations, aScale,
                  aEditingId, aIsProcessing, aError, aLoads, aRun, aDownloads,
                  aPlaced, aEditStart, aKeys, aEvents>>

editVars == <<eFile, ePdfDoc, eCurrentPage, ePageCount, eTextItems, eEdits, eEditingId,
              eScale, eError, eLoads, eClicks, eEvents>>

networkVars == <<wTool, wFile, wLoaded, wRequests, wDownloads, wEvents>>

extractTextVars == <<tFile, tText, tError, tIsProcessing, tRun, tStarted, tDownloads,
                     tEvents>>

vars == <<rangeVars, helperVars, splitVars, mergeVars, managerVars, rotateVars, numbersVars, imagesVars, outVars, textVars, annotateVars, editVars, networkVars, extractTextVars>>

(***************************************************************************)
(* JavaScript strings and numbers                                          *)
(***************************************************************************)

DigitChars == <<"0", "1", "2", "3", "4", "5", "6", "7", "8", "9">>

IsDigit(c) == \E i \in 1..10 : DigitChars[i] = c

DigitVal(c) == (CHOOSE i \in 1..10 : DigitChars[i] = c) - 1

WhiteSpace == {" "}

RECURSIVE trimStart(_)
trimStart(s) ==
    IF s = <<>> THEN s
    ELSE IF Head(s) \in WhiteSpace THEN trimStart(Tail(s)) ELSE s

RECURSIVE trimEnd(_)
trimEnd(s) ==
    IF s = <<>> THEN s
    ELSE IF s[Len(s)] \in WhiteSpace THEN trimEnd(SubSeq(s, 1, Len(s) - 1)) ELSE s

\* String.prototype.trim
trim(s) == trimEnd(trimStart(s))

\* String.prototype.includes for a one-character needle
includes(s, c) == \E i \in 1..Len(s) : s[i] = c

\* String.prototype.split for a one-character separator
RECURSIVE split(_, _)
split(s, sep) ==
    IF ~includes(s, sep) THEN <<s>>
    ELSE LET i == CHOOSE k \in 1..Len(s) :
                      /\ s[k] = sep
                      /\ \A j \in 1..(k - 1) : s[j] # sep
         IN  <<SubSeq(s, 1, i - 1)>> \o split(SubSeq(s, i + 1, Len(s)), sep)

\* Array.prototype.join
RECURSIVE join(_, _)
join(parts, sep) ==
    IF parts = <<>> THEN <<>>
    ELSE IF Len(parts) = 1 THEN parts[1]
    ELSE parts[1] \o <<sep>> \o join(Tail(parts), sep)

\* the value of a run of decimal digits, most significant first
RECURSIVE digitsValue(_, _)
digitsValue(s, acc) ==
    IF s = <<>> THEN acc
    ELSE digitsValue(Tail(s), acc * 10 + DigitVal(Head(s)))

\* the longest prefix of s made of decimal digits
RECURSIVE digitPrefix(_)
digitPrefix(s) ==
    IF s = <<>> \/ ~IsDigit(Head(s)) THEN <<>>
    ELSE <<Head(s)>> \o digitPrefix(Tail(s))

NaN == [nan |-> TRUE, val |-> 0]

Num(n) == [nan |-> FALSE, val |-> n]

\* Number.parseInt(s, 10): leading white space is skipped, an optional sign
\* is read, then as many decimal digits as follow; anything after them is
\* ignored; no digit at all gives NaN.
parseInt(s) ==
    LET t      == trimStart(s)
        signed == t # <<>> /\ Head(t) \in {"+", "-"}
        body   == IF signed THEN Tail(t) ELSE t
        ds     == digitPrefix(body)
    IN  IF ds = <<>> THEN NaN
        ELSE IF signed /\ Head(t) = "-" THEN Num(0 - digitsValue(ds, 0))
        ELSE Num(digitsValue(ds, 0))

\* the decimal digits of a natural number ( `${n}` )
RECURSIVE toString(_)
toString(n) ==
    IF n < 10 THEN <<DigitChars[n + 1]>>
    ELSE toString(n \div 10) \o <<DigitChars[(n % 10) + 1]>>

(***************************************************************************)
(* parseRanges: a function either returns its ranges or throws an Error    *)
(***************************************************************************)

Returned(ranges) == [threw |-> FALSE, ranges |-> ranges, message |-> <<>>]

Threw(message) == [threw |-> TRUE, ranges |-> <<>>, message |-> message]

\* spanPart without the clamp of the end to the page count
spanPartUnclamped(text, max) ==
    LET pieces == split(text, "-")
        start  == parseInt(pieces[1])
        end    == parseInt(pieces[2])
    IN  IF start.nan \/ end.nan
            THEN Threw(<<"Invalid range: ">> \o text)
        ELSE IF start.val < 1 \/ end.val < 1 \/ start.val > max
            THEN Threw(<<"Range out of bounds: ">> \o text)
        ELSE
        LET lo == IF end.val < start.val THEN end.val ELSE start.val
            hi == IF end.val < start.val THEN start.val ELSE end.val
        IN  Returned(<<<<lo, hi>>>>)

\* a part holding "-": both ends are parsed, checked, the end is clamped to
\* the page count and a reversed pair is swapped (split page)
spanPart(text, max) ==
    LET pieces == split(text, "-")
        start  == parseInt(pieces[1])
        end    == parseInt(pieces[2])
    IN  IF start.nan \/ end.nan
            THEN Threw(<<"Invalid range: ">> \o text)
        ELSE IF start.val < 1 \/ end.val < 1 \/ start.val > max
            THEN Threw(<<"Range out of bounds: ">> \o text)
        ELSE
        LET clamped == IF end.val > max THEN max ELSE end.val
            lo      == IF clamped < start.val THEN clamped ELSE start.val
            hi      == IF clamped < start.val THEN start.val ELSE clamped
        IN  Returned(<<<<lo, hi>>>>)

\* pagePart rejecting the last page (page >= maxPage)
pagePartExclusive(text, max) ==
    LET page == parseInt(text)
    IN  IF page.nan \/ page.val < 1 \/ page.val >= max
            THEN Threw(<<"Invalid page: ">> \o text)
        ELSE Returned(<<<<page.val, page.val>>>>)

\* a part without "-" is one page (split page)
pagePart(text, max) ==
    LET page == parseInt(text)
    IN  IF page.nan \/ page.val < 1 \/ page.val > max
            THEN Threw(<<"Invalid page: ">> \o text)
        ELSE Returned(<<<<page.val, page.val>>>>)

\* the for loop over the parts, with the ranges pushed so far (split page)
RECURSIVE parseParts(_, _, _)
parseParts(parts, max, ranges) ==
    IF parts = <<>> THEN Returned(ranges)
    ELSE
    LET text == trim(Head(parts)) IN
    IF text = <<>> THEN parseParts(Tail(parts), max, ranges)
    ELSE
    LET r == IF includes(text, "-") THEN spanPart(text, max) ELSE pagePart(text, max)
    IN  IF r.threw THEN r
        ELSE parseParts(Tail(parts), max, ranges \o r.ranges)

\* parseRanges of the split page
parseRanges(in, max) ==
    LET trimmed == trim(in)
    IN  IF trimmed = <<>> THEN Returned(<<>>)
        ELSE parseParts(split(trimmed, ","), max, <<>>)

\* spanPartExtract without the swap of a reversed pair
spanPartExtractNoSwap(text, max) ==
    LET pieces == split(text, "-")
        start  == parseInt(pieces[1])
        end    == parseInt(pieces[2])
    IN  IF start.nan \/ end.nan
            THEN Threw(<<"Invalid range: ">> \o text)
        ELSE IF start.val < 1 \/ end.val < 1 \/ start.val > max
            THEN Threw(<<"Range out of bounds: ">> \o text)
        ELSE
        LET clamped == IF end.val > max THEN max ELSE end.val
        IN  Returned(<<<<start.val, clamped>>>>)

\* a part holding "-" (extract-pages page)
spanPartExtract(text, max) ==
    LET pieces == split(text, "-")
        start  == parseInt(pieces[1])
        end    == parseInt(pieces[2])
    IN  IF start.nan \/ end.nan
            THEN Threw(<<"Invalid range: ">> \o text)
        ELSE IF start.val < 1 \/ end.val < 1 \/ start.val > max
            THEN Threw(<<"Range out of bounds: ">> \o text)
        ELSE
        LET clamped == IF end.val > max THEN max ELSE end.val
            lo      == IF clamped < start.val THEN clamped ELSE start.val
            hi      == IF clamped < start.val THEN start.val ELSE clamped
        IN  Returned(<<<<lo, hi>>>>)

\* a part without "-" (extract-pages page)
pagePartExtract(text, max) ==
    LET page == parseInt(text)
    IN  IF page.nan \/ page.val < 1 \/ page.val > max
            THEN Threw(<<"Invalid page: ">> \o text)
        ELSE Returned(<<<<page.val, page.val>>>>)

\* the for loop over the parts (extract-pages page)
RECURSIVE parsePartsExtract(_, _, _)
parsePartsExtract(parts, max, ranges) ==
    IF parts = <<>> THEN Returned(ranges)
    ELSE
    LET text == trim(Head(parts)) IN
    IF text = <<>> THEN parsePartsExtract(Tail(parts), max, ranges)
    ELSE
    LET r == IF includes(text, "-") THEN spanPartExtract(text, max)
             ELSE pagePartExtract(text, max)
    IN  IF r.threw THEN r
        ELSE parsePartsExtract(Tail(parts), max, ranges \o r.ranges)

\* parseRanges of the extract-pages page
parseRangesExtract(in, max) ==
    LET trimmed == trim(in)
    IN  IF trimmed = <<>> THEN Returned(<<>>)
        ELSE parsePartsExtract(split(trimmed, ","), max, <<>>)

(***************************************************************************)
(* Files and pdf-lib documents                                             *)
(*                                                                         *)
(* A File is [name, valid, rots]: valid says whether its bytes parse as a  *)
(* PDF, rots holds the rotation of each of its pages.  A loaded or created *)
(* document is the sequence of its pages.                                  *)
(***************************************************************************)

\* the rotation stored in the file for page i (1-based) of a document
SourceRot(name, i) == IF name = "A" THEN ((i - 1) % 4) * 90 ELSE 0

PdfFile(name, n) ==
    [name |-> name, valid |-> TRUE, rots |-> [i \in 1..n |-> SourceRot(name, i)]]

\* a file whose bytes are not a PDF
BadFile(name) == [name |-> name, valid |-> FALSE, rots |-> <<>>]

\* useState<File | null>(null), useState<number | null>(null), useState<string | null>(null)
NullFile == [name |-> "null", valid |-> FALSE, rots |-> <<>>]

NullCount == 0 - 1

NoError == <<>>

\* a settled promise: fulfilled with a value, or rejected with an Error
Fulfilled(v) == [threw |-> FALSE, value |-> v, message |-> <<>>]

Rejected(message) == [threw |-> TRUE, value |-> <<>>, message |-> message]

\* PDFDocument.load(await readFileAsArrayBuffer(file))
loadPdfDocument(file) ==
    IF ~file.valid THEN Rejected(<<"Failed to parse PDF document">>)
    ELSE Fulfilled([i \in 1..Len(file.rots) |->
                        [doc |-> file.name, idx |-> i - 1, rot |-> file.rots[i]]])

\* PDFDocument.create()
createDocument == <<>>

\* doc.copyPages(src, indices): copies of the pages at the 0-based indices, in
\* the order of the indices; an index the source does not have makes it throw
copyPages(src, indices) ==
    IF \E k \in 1..Len(indices) : indices[k] < 0 \/ indices[k] >= Len(src)
        THEN Rejected(<<"Cannot read properties of undefined">>)
    ELSE Fulfilled([k \in 1..Len(indices) |-> src[indices[k] + 1]])

\* doc.addPage(page)
addPage(doc, page) == Append(doc, page)

\* copied.forEach((page) => doc.addPage(page))
RECURSIVE addPages(_, _)
addPages(doc, copied) ==
    IF copied = <<>> THEN doc
    ELSE addPages(addPage(doc, Head(copied)), Tail(copied))

\* srcPdf.getPageIndices()
getPageIndices(src) == [k \in 1..Len(src) |-> k - 1]

(***************************************************************************)
(* pdfHelpers.ts                                                           *)
(***************************************************************************)

\* extractRange stopping one page early (pageNum < end)
RECURSIVE extractRangeExclusive(_, _, _, _)
extractRangeExclusive(src, pageNum, end, out) ==
    IF pageNum >= end THEN Fulfilled(out)
    ELSE LET copied == copyPages(src, <<pageNum - 1>>)
         IN  IF copied.threw THEN copied
             ELSE extractRangeExclusive(src, pageNum + 1, end,
                                        addPage(out, copied.value[1]))

\* the inner loop of extractPagesFromPdf: pageNum .. end copied one by one
RECURSIVE extractRange(_, _, _, _)
extractRange(src, pageNum, end, out) ==
    IF pageNum > end THEN Fulfilled(out)
    ELSE LET copied == copyPages(src, <<pageNum - 1>>)
         IN  IF copied.threw THEN copied
             ELSE extractRange(src, pageNum + 1, end, addPage(out, copied.value[1]))

\* the outer loop of extractPagesFromPdf over the ranges
RECURSIVE extractRanges(_, _, _)
extractRanges(src, ranges, out) ==
    IF ranges = <<>> THEN Fulfilled(out)
    ELSE LET r == extractRange(src, Head(ranges)[1], Head(ranges)[2], out)
         IN  IF r.threw THEN r
             ELSE extractRanges(src, Tail(ranges), r.value)

extractPagesFromPdf(file, ranges) ==
    LET src == loadPdfDocument(file)
    IN  IF src.threw THEN src
        ELSE extractRanges(src.value, ranges, createDocument)

\* splitIndices pushing i instead of i - 1
splitIndicesOneBased(start, end) ==
    IF end < start THEN <<>>
    ELSE [k \in 1..(end - start + 1) |-> start + k - 1]

\* the indices pushed by the inner loop of splitPdfByRanges: start-1 .. end-1
splitIndices(start, end) ==
    IF end < start THEN <<>>
    ELSE [k \in 1..(end - start + 1) |-> start + k - 2]

\* `split-part-${part}.pdf`
splitLabel(part) == <<"split-part-">> \o toString(part) \o <<".pdf">>

\* the loop of splitPdfByRanges over the ranges, part counting from 1
RECURSIVE splitRanges(_, _, _, _)
splitRanges(src, ranges, part, outputs) ==
    IF ranges = <<>> THEN Fulfilled(outputs)
    ELSE LET copied == copyPages(src, splitIndices(Head(ranges)[1], Head(ranges)[2]))
         IN  IF copied.threw THEN copied
             ELSE splitRanges(src, Tail(ranges), part + 1,
                      Append(outputs,
                             [label |-> splitLabel(part),
                              data  |-> addPages(createDocument, copied.value)]))

splitPdfByRanges(file, ranges) ==
    LET src == loadPdfDocument(file)
    IN  IF src.threw THEN src
        ELSE splitRanges(src.value, ranges, 1, <<>>)

\* mergeFiles putting each file's pages before those already merged
RECURSIVE mergeFilesPrepend(_, _)
mergeFilesPrepend(files, merged) ==
    IF files = <<>> THEN Fulfilled(merged)
    ELSE LET src == loadPdfDocument(Head(files))
         IN  IF src.threw THEN src
             ELSE LET copied == copyPages(src.value, getPageIndices(src.value))
                  IN  IF copied.threw THEN copied
                      ELSE mergeFilesPrepend(Tail(files), copied.value \o merged)

\* the loop of mergePdfFiles over the files
RECURSIVE mergeFiles(_, _)
mergeFiles(files, merged) ==
    IF files = <<>> THEN Fulfilled(merged)
    ELSE LET src == loadPdfDocument(Head(files))
         IN  IF src.threw THEN src
             ELSE LET copied == copyPages(src.value, getPageIndices(src.value))
                  IN  IF copied.threw THEN copied
                      ELSE mergeFiles(Tail(files), addPages(merged, copied.value))

mergePdfFiles(files) ==
    IF files = <<>> THEN Rejected(<<"No files to merge">>)
    ELSE mergeFiles(files, createDocument)

\* what takes the place of a missing array element
Undefined == [id |-> <<0 - 1, 0, "undefined">>, file |-> NullFile]

\* Array.prototype.splice(start, 1): the list without the element at the
\* 0-based index start, if it has one
spliceOut(list, start) ==
    IF start >= Len(list) THEN list
    ELSE SubSeq(list, 1, start) \o SubSeq(list, start + 2, Len(list))

\* Array.prototype.splice(start, 0, item): item inserted before the 0-based
\* index start, or at the end when start is past it
spliceIn(list, start, item) ==
    LET at == IF start > Len(list) THEN Len(list) ELSE start
    IN  SubSeq(list, 1, at) \o <<item>> \o SubSeq(list, at + 1, Len(list))

\* reorder exchanging the two elements instead of moving one
reorderSwap(list, startIndex, endIndex) ==
    [k \in 1..Len(list) |->
        IF k = startIndex + 1 THEN list[endIndex + 1]
        ELSE IF k = endIndex + 1 THEN list[startIndex + 1]
        ELSE list[k]]

\* reorder of the merge page
reorder(list, startIndex, endIndex) ==
    LET removed == IF startIndex >= Len(list) THEN Undefined ELSE list[startIndex + 1]
    IN  spliceIn(spliceOut(list, startIndex), endIndex, removed)

(***************************************************************************)
(* Specification SpecRanges: parseRanges applied to bounded inputs         *)
(***************************************************************************)

\* longest enumerated range string
MaxLen == 4

\* largest enumerated page count
MaxPage == 3

\* the characters a range string is typed from
Alphabet == {"0", "1", "2", "3", "-", ",", " ", "a"}

RECURSIVE StringsOfLen(_)
StringsOfLen(n) ==
    IF n = 0 THEN {<<>>}
    ELSE {Append(s, c) : s \in StringsOfLen(n - 1), c \in Alphabet}

Strings == UNION {StringsOfLen(n) : n \in 0..MaxLen}

\* "1-3,5,8-10", the specification's example for a ten-page document
ExampleInput == <<"1", "-", "3", ",", "5", ",", "8", "-", "1", "0">>

\* most parts joined into one input
MaxParts == 2

\* parts the joined inputs are built from: pages and spans in and out of
\* range, one- and two-digit, reversed, padded and malformed
SampleParts ==
    { <<>>, <<"1">>, <<"2">>, <<"1", "0">>, <<"1", "2">>, <<"0">>,
      <<"1", "-", "2">>, <<"2", "-", "1">>, <<"2", "-", "1", "0">>,
      <<"1", "0", "-", "2">>, <<"1", "-", "1", "2">>, <<"1", "2", "-", "1">>,
      <<"0", "-", "2">>, <<" ", "2", " ">>, <<"a">>, <<"1", "-">> }

RECURSIVE PartLists(_)
PartLists(n) ==
    IF n = 0 THEN {<<>>}
    ELSE {Append(ps, p) : ps \in PartLists(n - 1), p \in SampleParts}

JoinedInputs == {join(ps, ",") : ps \in UNION {PartLists(n) : n \in 1..MaxParts}}

\* longer inputs than either enumeration reaches
LongInputs ==
    { ExampleInput,
      <<"3", "-", "1", ",", "1", "0", "-", "8">>,
      <<"1", "-", "3", ",", ",", " ", "2", "-", "2", ",", "1", "0">>,
      <<"1", "-", "2", ",", "8", "-", "1", "1">>,
      <<" ", "2", " ", "-", " ", "4", " ", ",", "7">> }

\* the page count of the specification's example
LongMaxPage == 10

NotCalled == [threw |-> FALSE, ranges |-> <<>>, message |-> <<"not called">>]

\* parseRanges is not being called on its own
IdleRanges ==
    /\ copy = "split"
    /\ input = <<>>
    /\ maxPage = 1
    /\ result = NotCalled
    /\ called = FALSE

\* no helper is being called on its own
IdleHelpers ==
    /\ hFile = BadFile("none")
    /\ hRanges = <<>>
    /\ hResult = Fulfilled(<<>>)
    /\ hCalled = "none"

\* the split page as mounted
MountedSplit ==
    /\ sFile = NullFile
    /\ sPageCount = NullCount
    /\ sRangeInput = <<>>
    /\ sPresetN = <<>>
    /\ sOutputs = <<>>
    /\ sIsSplitting = FALSE
    /\ sError = NoError
    /\ sLoads = {}
    /\ sRun = {}
    /\ sDownloads = <<>>
    /\ sEvents = 0

\* useState<number | null>(null) for dragIndex
NullIndex == 0 - 1

\* the merge page as mounted
MountedMerge ==
    /\ mItems = <<>>
    /\ mDragIndex = NullIndex
    /\ mIsMerging = FALSE
    /\ mError = NoError
    /\ mRun = {}
    /\ mDownloads = <<>>
    /\ mCrashed = FALSE
    /\ mEvents = 0

\* rotateAllPages not called
IdleRotate ==
    /\ rotOrig = NullFile
    /\ rotFile = NullFile
    /\ rotApplied = <<>>

\* the page numbers page as mounted
MountedNumbers ==
    /\ nFile = NullFile
    /\ nPageCount = NullCount
    /\ nPosition = "footer"
    /\ nAlign = "center"
    /\ nStartNumber = 1
    /\ nFormat = "page-x"
    /\ nIsProcessing = FALSE
    /\ nError = NoError
    /\ nLoads = {}
    /\ nRun = {}
    /\ nDownloads = <<>>
    /\ nEvents = 0

\* the images to PDF page as mounted
MountedImages ==
    /\ iImages = <<>>
    /\ iDragIndex = NullIndex
    /\ iOrientation = "portrait"
    /\ iPageSize = "a4"
    /\ iIsProcessing = FALSE
    /\ iError = NoError
    /\ iRun = {}
    /\ iDownloads = <<>>
    /\ iCrashed = FALSE
    /\ iEvents = 0

\* the PDF to images page as mounted
MountedOut ==
    /\ dFile = NullFile
    /\ dPageCount = NullCount
    /\ dImageFormat = "png"
    /\ dIsProcessing = FALSE
    /\ dError = NoError
    /\ dPdfDoc = NullFile
    /\ dLoads = {}
    /\ dRun = {}
    /\ dDownloads = <<>>
    /\ dFinished = <<>>
    /\ dEvents = 0

\* extractTextFromPdf not called
IdleText ==
    /\ xPages = <<>>
    /\ xText = <<>>
    /\ xCalled = FALSE

\* the text annotations page as mounted
MountedAnnotate ==
    /\ aFile = NullFile
    /\ aPdfDoc = NullFile
    /\ aCurrentPage = 1
    /\ aPageCount = 0
    /\ aAnnotations = <<>>
    /\ aScale = 6
    /\ aEditingId = NullIndex
    /\ aIsProcessing = FALSE
    /\ aError = NoError
    /\ aLoads = {}
    /\ aRun = {}
    /\ aDownloads = <<>>
    /\ aPlaced = <<>>
    /\ aEditStart = <<>>
    /\ aKeys = <<>>
    /\ aEvents = 0

\* the edit PDF page as mounted
MountedEdit ==
    /\ eFile = NullFile
    /\ ePdfDoc = NullFile
    /\ eCurrentPage = 1
    /\ ePageCount = 0
    /\ eTextItems = <<>>
    /\ eEdits = <<>>
    /\ eEditingId = NullIndex
    /\ eScale = 6
    /\ eError = NoError
    /\ eLoads = {}
    /\ eClicks = <<>>
    /\ eEvents = 0

\* no tool page open
IdleNetwork ==
    /\ wTool = "home"
    /\ wFile = NullFile
    /\ wLoaded = FALSE
    /\ wRequests = <<>>
    /\ wDownloads = <<>>
    /\ wEvents = 0

\* the extract text page as mounted
MountedExtractText ==
    /\ tFile = NullFile
    /\ tText = <<>>
    /\ tError = NoError
    /\ tIsProcessing = FALSE
    /\ tRun = {}
    /\ tStarted = 0
    /\ tDownloads = <<>>
    /\ tEvents = 0

\* the page manager as mounted
MountedManager ==
    /\ pFile = NullFile
    /\ pPages = <<>>
    /\ pPageCount = NullCount
    /\ pDragIndex = NullIndex
    /\ pIsProcessing = FALSE
    /\ pError = NoError
    /\ pPdfDoc = NullFile
    /\ pIsLoadingThumbnails = FALSE
    /\ pLoads = {}
    /\ pThumbs = {}
    /\ pRotates = {}
    /\ pRun = {}
    /\ pDownloads = <<>>
    /\ pCrashed = FALSE
    /\ pEvents = 0
    /\ pSelections = 0
    /\ pClock = 0

InitRanges ==
    /\ copy \in {"split", "extract"}
    /\ \/ input \in Strings /\ maxPage \in 1..MaxPage
       \/ input \in JoinedInputs \cup LongInputs
          /\ maxPage \in (1..MaxPage) \cup {LongMaxPage}
    /\ result = NotCalled
    /\ called = FALSE
    /\ IdleHelpers
    /\ MountedSplit
    /\ MountedMerge
    /\ MountedManager
    /\ IdleRotate
    /\ MountedNumbers
    /\ MountedImages
    /\ MountedOut
    /\ IdleText
    /\ MountedAnnotate
    /\ MountedEdit
    /\ IdleNetwork
    /\ MountedExtractText

CallParseRanges ==
    /\ ~called
    /\ copy = "split"
    /\ result' = parseRanges(input, maxPage)
    /\ called' = TRUE
    /\ UNCHANGED <<copy, input, maxPage, helperVars, splitVars, mergeVars, managerVars, rotateVars, numbersVars, imagesVars, outVars, textVars, annotateVars, editVars, networkVars, extractTextVars>>

CallParseRangesExtract ==
    /\ ~called
    /\ copy = "extract"
    /\ result' = parseRangesExtract(input, maxPage)
    /\ called' = TRUE
    /\ UNCHANGED <<copy, input, maxPage, helperVars, splitVars, mergeVars, managerVars, rotateVars, numbersVars, imagesVars, outVars, textVars, annotateVars, editVars, networkVars, extractTextVars>>

NextRanges == CallParseRanges \/ CallParseRangesExtract

SpecRanges == InitRanges /\ [][NextRanges]_vars

(***************************************************************************)
(* Reference reading of a range string, written from the grammar           *)
(*   input ::= part ("," part)*     part ::= "" | digits | digits "-" digits *)
(* with blanks allowed around a part.  It shares nothing with the parser.  *)
(***************************************************************************)

RefCommas(s) == {i \in 1..Len(s) : s[i] = ","}

RefFieldCount(s) == Cardinality(RefCommas(s)) + 1

\* position of the k-th comma of s (0 before the first field, Len+1 after the last)
RefComma(s, k) ==
    IF k = 0 THEN 0
    ELSE IF k > Cardinality(RefCommas(s)) THEN Len(s) + 1
    ELSE CHOOSE c \in RefCommas(s) : Cardinality({d \in RefCommas(s) : d < c}) = k - 1

RefField(s, k) == SubSeq(s, RefComma(s, k - 1) + 1, RefComma(s, k) - 1)

RefStrip(t) ==
    LET solid == {i \in 1..Len(t) : t[i] # " "}
    IN  IF solid = {} THEN <<>>
        ELSE SubSeq(t, CHOOSE i \in solid : \A j \in solid : i <= j,
                       CHOOSE i \in solid : \A j \in solid : i >= j)

RefDigit(c) ==
    CASE c = "0" -> 0 [] c = "1" -> 1 [] c = "2" -> 2 [] c = "3" -> 3
      [] c = "4" -> 4 [] c = "5" -> 5 [] c = "6" -> 6 [] c = "7" -> 7
      [] c = "8" -> 8 [] c = "9" -> 9

RefAllDigits(t) ==
    /\ t # <<>>
    /\ \A i \in 1..Len(t) : t[i] \in {"0", "1", "2", "3", "4", "5", "6", "7", "8", "9"}

RECURSIVE RefValue(_)
RefValue(t) ==
    IF t = <<>> THEN 0
    ELSE RefValue(SubSeq(t, 1, Len(t) - 1)) * 10 + RefDigit(t[Len(t)])

\* what the k-th field of s is: nothing, a page, a span, or something else
RefShape(s, k) ==
    LET t      == RefStrip(RefField(s, k))
        dashes == {i \in 1..Len(t) : t[i] = "-"}
    IN  IF t = <<>> THEN [kind |-> "empty", a |-> 0, b |-> 0]
        ELSE IF RefAllDigits(t)
            THEN [kind |-> "page", a |-> RefValue(t), b |-> RefValue(t)]
        ELSE IF Cardinality(dashes) = 1
            THEN LET d == CHOOSE i \in dashes : TRUE
                     l == SubSeq(t, 1, d - 1)
                     r == SubSeq(t, d + 1, Len(t))
                 IN  IF RefAllDigits(l) /\ RefAllDigits(r)
                         THEN [kind |-> "span", a |-> RefValue(l), b |-> RefValue(r)]
                     ELSE [kind |-> "other", a |-> 0, b |-> 0]
        ELSE [kind |-> "other", a |-> 0, b |-> 0]

RefShapes(s) == [k \in 1..RefFieldCount(s) |-> RefShape(s, k)]

RefMin(x, y) == IF x < y THEN x ELSE y

RefMax(x, y) == IF x < y THEN y ELSE x

\* the pairs of the non-empty fields, in order: a span's ends sorted and its
\* upper end cut at max
RECURSIVE RefPairs(_, _)
RefPairs(shapes, max) ==
    IF shapes = <<>> THEN <<>>
    ELSE LET h    == Head(shapes)
             rest == RefPairs(Tail(shapes), max)
         IN  IF h.kind = "empty" THEN rest
             ELSE <<<<RefMin(h.a, RefMin(h.b, max)), RefMax(h.a, RefMin(h.b, max))>>>>
                  \o rest

InRange(n, max) == 1 <= n /\ n <= max

\* every field is empty, a page p with 1 <= p <= max, or a span a-b with
\* 1 <= a <= b <= max
WellFormed(s, max) ==
    \A k \in 1..RefFieldCount(s) :
        LET h == RefShape(s, k)
        IN  \/ h.kind = "empty"
            \/ h.kind = "page" /\ InRange(h.a, max)
            \/ h.kind = "span" /\ InRange(h.a, max) /\ InRange(h.b, max) /\ h.a <= h.b

\* C1: on an input whose parts are pages within 1..maxPage or spans a-b with
\* 1 <= a <= b <= maxPage, both copies of parseRanges return one pair per
\* non-empty part, in input order, [p,p] for a page and [a,b] for a span;
\* "1-3,5,8-10" on ten pages gives [[1,3],[5,5],[8,10]].
C1_WellFormedInputParsed ==
    called =>
        /\ WellFormed(input, maxPage) =>
               /\ ~result.threw
               /\ result.ranges = RefPairs(RefShapes(input), maxPage)
               /\ Len(result.ranges) =
                      Cardinality({k \in 1..RefFieldCount(input) :
                                       RefShape(input, k).kind # "empty"})
        /\ (input = ExampleInput /\ maxPage = LongMaxPage) =>
               result = Returned(<<<<1, 3>>, <<5, 5>>, <<8, 10>>>>)

C1_Witness ==
    /\ called
    /\ input = ExampleInput
    /\ maxPage = LongMaxPage
    /\ WellFormed(input, maxPage)
    /\ result.ranges = <<<<1, 3>>, <<5, 5>>, <<8, 10>>>>

\* some field names a page outside 1..max: as a page, or as either end of a span
NamesOutOfRange(s, max) ==
    \E k \in 1..RefFieldCount(s) :
        LET h == RefShape(s, k)
        IN  /\ h.kind \in {"page", "span"}
            /\ ~InRange(h.a, max) \/ ~InRange(h.b, max)

\* some field names a page outside 1..max other than as the upper end of a
\* span that starts within 1..max
NamesRejectedPage(s, max) ==
    \E k \in 1..RefFieldCount(s) :
        LET h == RefShape(s, k)
        IN  \/ h.kind = "page" /\ ~InRange(h.a, max)
            \/ h.kind = "span" /\ (~InRange(h.a, max) \/ h.b < 1)

\* every field is empty, a page in range, or a span that starts in range and
\* ends at 1 or above (possibly above max)
WellFormedUpToClamp(s, max) ==
    \A k \in 1..RefFieldCount(s) :
        LET h == RefShape(s, k)
        IN  \/ h.kind = "empty"
            \/ h.kind = "page" /\ InRange(h.a, max)
            \/ h.kind = "span" /\ InRange(h.a, max) /\ h.b >= 1

SomeSpanAbove(s, max) ==
    \E k \in 1..RefFieldCount(s) :
        LET h == RefShape(s, k)
        IN  h.kind = "span" /\ InRange(h.a, max) /\ h.b > max

\* C2 as stated: whenever any part names a page below 1 or above maxPage, as
\* a single page or as either end of a span, parseRanges throws.
C2_OutOfRangeAlwaysThrows ==
    (called /\ NamesOutOfRange(input, maxPage)) => result.threw

\* C2 amended: parseRanges throws whenever a part names a single page outside
\* 1..maxPage, a span whose first number is outside 1..maxPage or a span whose
\* second number is below 1; a second number above maxPage is not rejected but
\* cut down to maxPage, so a-b with 1 <= a <= maxPage < b yields [a,maxPage].
C2_OutOfRangeRejectedOrClamped ==
    called =>
        /\ NamesRejectedPage(input, maxPage) =>
               result.threw /\ result.ranges = <<>>
        /\ WellFormedUpToClamp(input, maxPage) =>
               /\ ~result.threw
               /\ result.ranges = RefPairs(RefShapes(input), maxPage)
               /\ \A i \in 1..Len(result.ranges) :
                      InRange(result.ranges[i][1], maxPage)
                          /\ InRange(result.ranges[i][2], maxPage)

C2_Witness ==
    /\ called
    /\ NamesRejectedPage(input, maxPage)
    /\ result.threw
    /\ result.message # <<>>

C2_ClampWitness ==
    /\ called
    /\ WellFormedUpToClamp(input, maxPage)
    /\ SomeSpanAbove(input, maxPage)
    /\ ~result.threw

\* every field is empty, a page in range or a span with both ends in range,
\* in either order, and at least one span is reversed
WellFormedWithReversed(s, max) ==
    /\ \A k \in 1..RefFieldCount(s) :
           LET h == RefShape(s, k)
           IN  \/ h.kind = "empty"
               \/ h.kind \in {"page", "span"} /\ InRange(h.a, max) /\ InRange(h.b, max)
    /\ \E k \in 1..RefFieldCount(s) :
           RefShape(s, k).kind = "span" /\ RefShape(s, k).b < RefShape(s, k).a

\* the input with the two numbers of every reversed span exchanged
RECURSIVE RefUnreversed(_, _)
RefUnreversed(s, k) ==
    IF k > RefFieldCount(s) THEN <<>>
    ELSE LET h    == RefShape(s, k)
             text == IF h.kind = "span" /\ h.b < h.a
                         THEN toString(h.b) \o <<"-">> \o toString(h.a)
                     ELSE RefField(s, k)
         IN  IF k = RefFieldCount(s) THEN text
             ELSE text \o <<",">> \o RefUnreversed(s, k + 1)

ParseWith(c, s, max) ==
    IF c = "split" THEN parseRanges(s, max) ELSE parseRangesExtract(s, max)

\* C3: a span a-b with 1 <= b < a <= maxPage is returned as [b,a], the pair
\* returned for b-a: no failure, and no pair whose start exceeds its end.
C3_ReversedNormalised ==
    (called /\ WellFormedWithReversed(input, maxPage)) =>
        /\ ~result.threw
        /\ result.ranges = RefPairs(RefShapes(input), maxPage)
        /\ \A i \in 1..Len(result.ranges) : result.ranges[i][1] <= result.ranges[i][2]
        /\ result = ParseWith(copy, RefUnreversed(input, 1), maxPage)

C3_Witness ==
    /\ called
    /\ WellFormedWithReversed(input, maxPage)
    /\ \E i \in 1..Len(result.ranges) : result.ranges[i] = <<1, 3>>
    /\ RefShape(input, 1).a = 3

(***************************************************************************)
(* Specification SpecHelpers: extractPagesFromPdf and splitPdfByRanges     *)
(* applied to bounded files and range lists                                *)
(***************************************************************************)

\* most pages of an enumerated document
MaxDocPages == 3

\* most ranges of an enumerated range list
MaxRanges == 2

\* range ends run from 0 to one past the last page, so that lists with a
\* range outside the document or with end = start - 1 are tried too
RangePairs ==
    {r \in (0..(MaxDocPages + 1)) \X (0..(MaxDocPages + 1)) : r[2] >= r[1] - 1}

RECURSIVE RangeLists(_)
RangeLists(n) ==
    IF n = 0 THEN {<<>>}
    ELSE {Append(rs, r) : rs \in RangeLists(n - 1), r \in RangePairs}

\* two lists long enough for a two-digit part number
ManyRanges ==
    { [k \in 1..11 |-> <<1, 1>>],
      [k \in 1..12 |-> <<((k - 1) % 2) + 1, 2>>] }

HelperFiles ==
    {PdfFile("A", n) : n \in 1..MaxDocPages} \cup {BadFile("X")}

InitHelpers ==
    /\ IdleRanges
    /\ hFile \in HelperFiles
    /\ hRanges \in UNION {RangeLists(n) : n \in 0..MaxRanges} \cup ManyRanges
    /\ hResult = Fulfilled(<<>>)
    /\ hCalled = "none"
    /\ MountedSplit
    /\ MountedMerge
    /\ MountedManager
    /\ IdleRotate
    /\ MountedNumbers
    /\ MountedImages
    /\ MountedOut
    /\ IdleText
    /\ MountedAnnotate
    /\ MountedEdit
    /\ IdleNetwork
    /\ MountedExtractText

CallExtractPagesFromPdf ==
    /\ hCalled = "none"
    /\ hResult' = extractPagesFromPdf(hFile, hRanges)
    /\ hCalled' = "extract"
    /\ UNCHANGED <<hFile, hRanges, rangeVars, splitVars, mergeVars, managerVars, rotateVars, numbersVars, imagesVars, outVars, textVars, annotateVars, editVars, networkVars, extractTextVars>>

CallSplitPdfByRanges ==
    /\ hCalled = "none"
    /\ hResult' = splitPdfByRanges(hFile, hRanges)
    /\ hCalled' = "split"
    /\ UNCHANGED <<hFile, hRanges, rangeVars, splitVars, mergeVars, managerVars, rotateVars, numbersVars, imagesVars, outVars, textVars, annotateVars, editVars, networkVars, extractTextVars>>

NextHelpers == CallExtractPagesFromPdf \/ CallSplitPdfByRanges

SpecHelpers == InitHelpers /\ [][NextHelpers]_vars

\* every range [start,end] of the list has 1 <= start <= end <= n
RangesWithin(ranges, n) ==
    \A k \in 1..Len(ranges) :
        1 <= ranges[k][1] /\ ranges[k][1] <= ranges[k][2] /\ ranges[k][2] <= n

RangeSize(r) == r[2] - r[1] + 1

RECURSIVE TotalSize(_)
TotalSize(ranges) ==
    IF ranges = <<>> THEN 0 ELSE RangeSize(Head(ranges)) + TotalSize(Tail(ranges))

\* the 1-based source page at position j of the pages selected by the ranges
RECURSIVE SelectedPage(_, _)
SelectedPage(ranges, j) ==
    IF j <= RangeSize(Head(ranges)) THEN Head(ranges)[1] + j - 1
    ELSE SelectedPage(Tail(ranges), j - RangeSize(Head(ranges)))

\* page p (1-based) of the file, as the library loads it
SourcePage(file, p) == [doc |-> file.name, idx |-> p - 1, rot |-> file.rots[p]]

\* C7: extractPagesFromPdf on ranges within the document gives, range after
\* range in the given order, source pages start..end ascending: only selected
\* pages, sum of (end - start + 1) pages in all, a page covered by k ranges
\* appearing k times.
C7_ExtractSelectedPages ==
    (hCalled = "extract" /\ hFile.valid /\ RangesWithin(hRanges, Len(hFile.rots))) =>
        /\ ~hResult.threw
        /\ Len(hResult.value) = TotalSize(hRanges)
        /\ \A j \in 1..Len(hResult.value) :
               hResult.value[j] = SourcePage(hFile, SelectedPage(hRanges, j))
        /\ \A p \in 1..Len(hFile.rots) :
               Cardinality({j \in 1..Len(hResult.value) : hResult.value[j].idx = p - 1})
                   = Cardinality({k \in 1..Len(hRanges) :
                                      hRanges[k][1] <= p /\ p <= hRanges[k][2]})

C7_Witness ==
    /\ hCalled = "extract"
    /\ hFile.valid
    /\ Len(hFile.rots) = 3
    /\ hRanges = <<<<2, 3>>, <<1, 2>>>>
    /\ [j \in 1..Len(hResult.value) |-> hResult.value[j].idx] = <<1, 2, 0, 1>>

\* C8: splitPdfByRanges returns one output per range, in range order; the
\* k-th is labelled split-part-k.pdf and holds source pages start..end of the
\* k-th range, ascending, and nothing else.
C8_SplitOnePartPerRange ==
    (hCalled = "split" /\ hFile.valid /\ RangesWithin(hRanges, Len(hFile.rots))) =>
        /\ ~hResult.threw
        /\ Len(hResult.value) = Len(hRanges)
        /\ \A k \in 1..Len(hResult.value) :
               LET out    == hResult.value[k]
                   number == SubSeq(out.label, 2, Len(out.label) - 1)
               IN  /\ out.label[1] = "split-part-"
                   /\ out.label[Len(out.label)] = ".pdf"
                   /\ RefAllDigits(number)
                   /\ number[1] # "0"
                   /\ RefValue(number) = k
                   /\ Len(out.data) = RangeSize(hRanges[k])
                   /\ \A j \in 1..Len(out.data) :
                          out.data[j] = SourcePage(hFile, hRanges[k][1] + j - 1)

C8_Witness ==
    /\ hCalled = "split"
    /\ hFile.valid
    /\ Len(hRanges) = 12
    /\ Len(hResult.value) = 12
    /\ hResult.value[12].label = <<"split-part-", "1", "2", ".pdf">>
    /\ Len(hResult.value[2].data) = 1
    /\ Len(hResult.value[1].data) = 2

(***************************************************************************)
(* Specification SpecSplit: the split page                                 *)
(***************************************************************************)

\* most user events (selections, typing, clicks) in one session
MaxSplitEvents == 4

\* most pages of the enumerated short documents
MaxSplitPages == 3

SplitFiles ==
    {PdfFile("A", n) : n \in 1..MaxSplitPages} \cup {PdfFile("B", 12), BadFile("X")}

\* what is typed into the range field
RangeTexts ==
    { <<"1", "-", "2", ",", "3">>, <<"2", "-", "9">>, <<"1", "0", "-", "1", "2">>, <<"x">> }

\* what the number field can hold
PresetTexts ==
    { <<>>, <<"0">>, <<"1">>, <<"5">>, <<"1", "2">>, <<"-", "1">>, <<"2", ".", "5">> }

\* !pageCount
NoPageCount(count) == count = NullCount \/ count = 0

\* presetRanges with end = Math.min(start + n, pageCount)
RECURSIVE presetRangesLongChunk(_, _, _)
presetRangesLongChunk(start, n, count) ==
    IF start > count THEN <<>>
    ELSE LET end == IF start + n < count THEN start + n ELSE count
         IN  << IF start = end THEN toString(start)
                ELSE toString(start) \o <<"-">> \o toString(end) >>
             \o presetRangesLongChunk(start + n, n, count)

\* the range strings pushed by the loop of handlePreset, from `start` on
RECURSIVE presetRanges(_, _, _)
presetRanges(start, n, count) ==
    IF start > count THEN <<>>
    ELSE LET end == IF start + n - 1 < count THEN start + n - 1 ELSE count
         IN  << IF start = end THEN toString(start)
                ELSE toString(start) \o <<"-">> \o toString(end) >>
             \o presetRanges(start + n, n, count)

\* the split page leaves everything outside it alone
SplitFrame == UNCHANGED <<rangeVars, helperVars, mergeVars, managerVars, rotateVars, numbersVars, imagesVars, outVars, textVars, annotateVars, editVars, networkVars, extractTextVars>>

InitSplit ==
    /\ IdleRanges
    /\ IdleHelpers
    /\ MountedSplit
    /\ MountedMerge
    /\ MountedManager
    /\ IdleRotate
    /\ MountedNumbers
    /\ MountedImages
    /\ MountedOut
    /\ IdleText
    /\ MountedAnnotate
    /\ MountedEdit
    /\ IdleNetwork
    /\ MountedExtractText

\* FileUpload onFilesSelected, and the load effect the new file starts
SplitSelectFile(f) ==
    /\ sEvents < MaxSplitEvents
    /\ sEvents' = sEvents + 1
    /\ sFile' = f
    /\ sOutputs' = <<>>
    /\ sRangeInput' = <<>>
    /\ sError' = NoError
    /\ IF f = NullFile
           THEN sPageCount' = NullCount /\ sLoads' = sLoads
       ELSE sPageCount' = sPageCount
            /\ sLoads' = sLoads \cup {[id |-> sEvents, file |-> f]}
    /\ UNCHANGED <<sPresetN, sIsSplitting, sRun, sDownloads>>
    /\ SplitFrame

\* loadPdfDocument settles inside a run of the load effect
SplitLoadSettles(task) ==
    /\ task \in sLoads
    /\ sLoads' = sLoads \ {task}
    /\ LET doc == loadPdfDocument(task.file)
       IN  IF doc.threw
               THEN sError' = doc.message /\ sPageCount' = sPageCount
           ELSE sPageCount' = Len(doc.value) /\ sError' = sError
    /\ UNCHANGED <<sFile, sRangeInput, sPresetN, sOutputs, sIsSplitting, sRun,
                   sDownloads, sEvents>>
    /\ SplitFrame

\* onChange of the range field
SplitSetRangeInput(text) ==
    /\ sEvents < MaxSplitEvents
    /\ sEvents' = sEvents + 1
    /\ sRangeInput' = text
    /\ UNCHANGED <<sFile, sPageCount, sPresetN, sOutputs, sIsSplitting, sError,
                   sLoads, sRun, sDownloads>>
    /\ SplitFrame

\* onChange of the number field, rendered only while pageCount is truthy
SplitSetPresetN(text) ==
    /\ sEvents < MaxSplitEvents
    /\ ~NoPageCount(sPageCount)
    /\ sEvents' = sEvents + 1
    /\ sPresetN' = text
    /\ UNCHANGED <<sFile, sPageCount, sRangeInput, sOutputs, sIsSplitting, sError,
                   sLoads, sRun, sDownloads>>
    /\ SplitFrame

\* handlePreset ("Fill ranges", rendered only while pageCount is truthy)
handlePreset ==
    /\ sEvents < MaxSplitEvents
    /\ ~NoPageCount(sPageCount)
    /\ sEvents' = sEvents + 1
    /\ LET n == parseInt(sPresetN)
       IN  IF NoPageCount(sPageCount) \/ sPresetN = <<>>
               THEN UNCHANGED <<sRangeInput, sError>>
           ELSE IF n.nan \/ n.val = 0 \/ n.val < 1
               THEN /\ sError' = <<"Please enter a valid number of pages for the preset.">>
                    /\ sRangeInput' = sRangeInput
           ELSE /\ sRangeInput' = join(presetRanges(1, n.val, sPageCount), ",")
                /\ sError' = NoError
    /\ UNCHANGED <<sFile, sPageCount, sPresetN, sOutputs, sIsSplitting, sLoads, sRun,
                   sDownloads>>
    /\ SplitFrame

\* handleSplit up to its await ("Split PDF", disabled while isSplitting || !file)
handleSplit ==
    /\ sEvents < MaxSplitEvents
    /\ ~sIsSplitting
    /\ sFile # NullFile
    /\ sEvents' = sEvents + 1
    /\ IF NoPageCount(sPageCount)
           THEN /\ sError' = <<"Please upload a PDF first.">>
                /\ UNCHANGED <<sIsSplitting, sOutputs, sRun>>
       ELSE IF trim(sRangeInput) = <<>>
           THEN /\ sError' = <<"Enter page ranges, e.g. 1-3,5,8-10.">>
                /\ UNCHANGED <<sIsSplitting, sOutputs, sRun>>
       ELSE LET parsed == parseRanges(sRangeInput, sPageCount)
            IN  /\ sOutputs' = <<>>
                /\ IF parsed.threw
                       THEN /\ sError' = parsed.message
                            /\ sIsSplitting' = FALSE
                            /\ sRun' = sRun
                   ELSE IF parsed.ranges = <<>>
                       THEN /\ sError' = <<"No valid ranges found.">>
                            /\ sIsSplitting' = FALSE
                            /\ sRun' = sRun
                   ELSE /\ sError' = NoError
                        /\ sIsSplitting' = TRUE
                        /\ sRun' = sRun \cup {[file |-> sFile, ranges |-> parsed.ranges]}
    /\ UNCHANGED <<sFile, sPageCount, sRangeInput, sPresetN, sLoads, sDownloads>>
    /\ SplitFrame

\* splitPdfByRanges settles inside a run of handleSplit
SplitRunSettles(run) ==
    /\ run \in sRun
    /\ sRun' = sRun \ {run}
    /\ LET r == splitPdfByRanges(run.file, run.ranges)
       IN  IF r.threw
               THEN sError' = r.message /\ sOutputs' = sOutputs
           ELSE sOutputs' = r.value /\ sError' = sError
    /\ sIsSplitting' = FALSE
    /\ UNCHANGED <<sFile, sPageCount, sRangeInput, sPresetN, sLoads, sDownloads, sEvents>>
    /\ SplitFrame

\* "Download" of one listed part: downloadBlob(out.data, out.label)
SplitDownload(k) ==
    /\ sEvents < MaxSplitEvents
    /\ k \in 1..Len(sOutputs)
    /\ sEvents' = sEvents + 1
    /\ sDownloads' = Append(sDownloads, sOutputs[k].label)
    /\ UNCHANGED <<sFile, sPageCount, sRangeInput, sPresetN, sOutputs, sIsSplitting,
                   sError, sLoads, sRun>>
    /\ SplitFrame

NextSplit ==
    \/ \E f \in SplitFiles \cup {NullFile} : SplitSelectFile(f)
    \/ \E task \in sLoads : SplitLoadSettles(task)
    \/ \E text \in RangeTexts : SplitSetRangeInput(text)
    \/ \E text \in PresetTexts : SplitSetPresetN(text)
    \/ handlePreset
    \/ handleSplit
    \/ \E run \in sRun : SplitRunSettles(run)
    \/ \E k \in 1..Len(sOutputs) : SplitDownload(k)

SpecSplit == InitSplit /\ [][NextSplit]_vars

\* a step of handlePreset with a chunk size typed as a whole number n >= 1
PresetFills ==
    /\ handlePreset
    /\ RefAllDigits(sPresetN)
    /\ RefValue(sPresetN) >= 1

\* the ranges are [1,n], [n+1,2n], ... and partition 1..count
ChunksPartition(r, count, n) ==
    /\ ~r.threw
    /\ LET rs == r.ranges
       IN  /\ Len(rs) >= 1
           /\ rs[1][1] = 1
           /\ rs[Len(rs)][2] = count
           /\ \A k \in 1..Len(rs) :
                  /\ rs[k][1] = (k - 1) * n + 1
                  /\ rs[k][1] <= rs[k][2]
                  /\ rs[k][2] - rs[k][1] + 1 <= n
                  /\ k < Len(rs) => /\ rs[k][2] - rs[k][1] + 1 = n
                                    /\ rs[k + 1][1] = rs[k][2] + 1
           /\ \A q \in 1..count :
                  Cardinality({k \in 1..Len(rs) : rs[k][1] <= q /\ q <= rs[k][2]}) = 1

\* C9: for a loaded document of P >= 1 pages and a chunk size n >= 1,
\* handlePreset fills the range field with a string that parseRanges(., P)
\* accepts and parses into consecutive ascending ranges [1,n],[n+1,2n],...
\* that partition 1..P, each of n pages except possibly the last.
C9_PresetPartitions ==
    [][PresetFills =>
           ChunksPartition(parseRanges(sRangeInput', sPageCount), sPageCount,
                           RefValue(sPresetN))]_vars

C9_Witness ==
    /\ sPageCount = 12
    /\ sPresetN = <<"5">>
    /\ sRangeInput = <<"1", "-", "5", ",", "6", "-", "1", "0", ",", "1", "1", "-", "1", "2">>
    /\ sError = NoError

(***************************************************************************)
(* Specification SpecMerge: the merge page                                 *)
(***************************************************************************)

\* most user events in one session
MaxMergeEvents == 4

\* the selections tried: one file or several, valid or not, repeated or not
MergeSelections ==
    { <<PdfFile("A", 1)>>, <<PdfFile("B", 2)>>,
      <<PdfFile("A", 1), PdfFile("B", 2)>>,
      <<PdfFile("B", 2), BadFile("X")>>,
      <<PdfFile("B", 2), PdfFile("A", 1), PdfFile("B", 2)>> }

\* the merge page leaves everything outside it alone
MergeFrame == UNCHANGED <<rangeVars, helperVars, splitVars, managerVars, rotateVars, numbersVars, imagesVars, outVars, textVars, annotateVars, editVars, networkVars, extractTextVars>>

InitMerge ==
    /\ IdleRanges
    /\ IdleHelpers
    /\ MountedSplit
    /\ MountedMerge
    /\ MountedManager
    /\ IdleRotate
    /\ MountedNumbers
    /\ MountedImages
    /\ MountedOut
    /\ IdleText
    /\ MountedAnnotate
    /\ MountedEdit
    /\ IdleNetwork
    /\ MountedExtractText

\* rendering items.map((item) => ... item.id ...) throws on an undefined entry
MergeRenderThrows(items) == \E k \in 1..Len(items) : items[k] = Undefined

\* handleFilesSelected: Date.now() is the time of the event, later at every
\* event than at the one before
handleFilesSelected(files) ==
    /\ ~mCrashed
    /\ mEvents < MaxMergeEvents
    /\ mEvents' = mEvents + 1
    /\ mItems' = mItems \o [k \in 1..Len(files) |->
                                [id |-> <<mEvents, k - 1, files[k].name>>, file |-> files[k]]]
    /\ UNCHANGED <<mDragIndex, mIsMerging, mError, mRun, mDownloads, mCrashed>>
    /\ MergeFrame

\* onDragStart of row index
MergeDragStart(index) ==
    /\ ~mCrashed
    /\ mEvents < MaxMergeEvents
    /\ index \in 0..(Len(mItems) - 1)
    /\ mEvents' = mEvents + 1
    /\ mDragIndex' = index
    /\ UNCHANGED <<mItems, mIsMerging, mError, mRun, mDownloads, mCrashed>>
    /\ MergeFrame

\* onDrop of row index: whatever is dragged over the row can be dropped on it
MergeDrop(index) ==
    /\ ~mCrashed
    /\ mEvents < MaxMergeEvents
    /\ index \in 0..(Len(mItems) - 1)
    /\ mEvents' = mEvents + 1
    /\ IF mDragIndex = NullIndex \/ mDragIndex = index
           THEN UNCHANGED <<mItems, mDragIndex, mCrashed>>
       ELSE /\ mItems' = reorder(mItems, mDragIndex, index)
            /\ mDragIndex' = NullIndex
            /\ mCrashed' = MergeRenderThrows(mItems')
    /\ UNCHANGED <<mIsMerging, mError, mRun, mDownloads>>
    /\ MergeFrame

\* "Remove" of row index: prev.filter((existing) => existing.id !== item.id)
MergeRemove(index) ==
    /\ ~mCrashed
    /\ mEvents < MaxMergeEvents
    /\ index \in 0..(Len(mItems) - 1)
    /\ mEvents' = mEvents + 1
    /\ mItems' = SelectSeq(mItems, LAMBDA existing : existing.id # mItems[index + 1].id)
    /\ UNCHANGED <<mDragIndex, mIsMerging, mError, mRun, mDownloads, mCrashed>>
    /\ MergeFrame

\* handleMerge up to its await ("Merge PDFs", disabled while isMerging or
\* with fewer than two items)
handleMerge ==
    /\ ~mCrashed
    /\ mEvents < MaxMergeEvents
    /\ ~mIsMerging
    /\ Len(mItems) >= 2
    /\ mEvents' = mEvents + 1
    /\ IF Len(mItems) = 0
           THEN /\ mError' = <<"Please add at least two PDF files to merge.">>
                /\ UNCHANGED <<mIsMerging, mRun>>
       ELSE IF Len(mItems) = 1
           THEN /\ mError' = <<"You need at least two PDFs to merge.">>
                /\ UNCHANGED <<mIsMerging, mRun>>
       ELSE /\ mError' = NoError
            /\ mIsMerging' = TRUE
            /\ mRun' = mRun \cup {[files |-> [k \in 1..Len(mItems) |-> mItems[k].file]]}
    /\ UNCHANGED <<mItems, mDragIndex, mDownloads, mCrashed>>
    /\ MergeFrame

\* mergePdfFiles settles inside a run of handleMerge
MergeRunSettles(run) ==
    /\ ~mCrashed
    /\ run \in mRun
    /\ mRun' = mRun \ {run}
    /\ LET merged == mergePdfFiles(run.files)
       IN  IF merged.threw
               THEN mError' = merged.message /\ mDownloads' = mDownloads
           ELSE /\ mDownloads' = Append(mDownloads, [filename |-> "merged.pdf",
                                                     data |-> merged.value])
                /\ mError' = mError
    /\ mIsMerging' = FALSE
    /\ UNCHANGED <<mItems, mDragIndex, mCrashed, mEvents>>
    /\ MergeFrame

NextMerge ==
    \/ \E files \in MergeSelections : handleFilesSelected(files)
    \/ \E index \in 0..(Len(mItems) - 1) : MergeDragStart(index)
    \/ \E index \in 0..(Len(mItems) - 1) : MergeDrop(index)
    \/ \E index \in 0..(Len(mItems) - 1) : MergeRemove(index)
    \/ handleMerge
    \/ \E run \in mRun : MergeRunSettles(run)

SpecMerge == InitMerge /\ [][NextMerge]_vars

RECURSIVE TotalPages(_)
TotalPages(files) ==
    IF files = <<>> THEN 0 ELSE Len(Head(files).rots) + TotalPages(Tail(files))

\* the page at position j of the files' pages laid end to end
RECURSIVE MergedPage(_, _)
MergedPage(files, j) ==
    IF j <= Len(Head(files).rots) THEN SourcePage(Head(files), j)
    ELSE MergedPage(Tail(files), j - Len(Head(files).rots))

AllValid(files) == \A k \in 1..Len(files) : files[k].valid

\* C6: a merge run takes the files in the order of the list as it stands when
\* "Merge PDFs" is clicked, and the document it downloads is the pages of
\* those files end to end, file after file in that order, each file's pages
\* in their own order: as many pages as the files have together.
C6_MergeConcatenatesListOrder ==
    [][/\ (handleMerge /\ mIsMerging') =>
              mRun' \ mRun = {[files |-> [k \in 1..Len(mItems) |-> mItems[k].file]]}
       /\ \A run \in mRun :
              (MergeRunSettles(run) /\ AllValid(run.files)) =>
                  /\ Len(mDownloads') = Len(mDownloads) + 1
                  /\ LET out == mDownloads'[Len(mDownloads')].data
                     IN  /\ Len(out) = TotalPages(run.files)
                         /\ \A j \in 1..Len(out) : out[j] = MergedPage(run.files, j)
      ]_vars

\* the list was selected as A, B and reordered to B, A before merging
C6_Witness ==
    /\ Len(mItems) = 2
    /\ mItems[1].id = <<0, 1, "B">>
    /\ mItems[2].id = <<0, 0, "A">>
    /\ Len(mDownloads) = 1
    /\ [j \in 1..Len(mDownloads[1].data) |->
            <<mDownloads[1].data[j].doc, mDownloads[1].data[j].idx>>]
           = << <<"B", 0>>, <<"B", 1>>, <<"A", 0>> >>

(***************************************************************************)
(* Specification SpecManager: the page manager                             *)
(***************************************************************************)

\* user events in one run of the page manager
MaxManagerEvents == 4

\* file selections among them
MaxManagerSelections == 2

\* pages of the larger document
MaxManagerPages == 2

ManagerFiles == {PdfFile("A", MaxManagerPages), PdfFile("B", 1), BadFile("X")}

\* a page item before its thumbnail is assigned, or assigned thumbnails[idx]
\* past the end of thumbnails
UndefinedThumbnail == [doc |-> "undefined", idx |-> 0 - 1, rotation |-> 0]

\* the "" that generatePageThumbnail returns from its catch
EmptyThumbnail == [doc |-> "", idx |-> 0 - 1, rotation |-> 0]

\* what takes the place of a missing element of pages
UndefinedPage ==
    [id |-> <<0 - 1, 0 - 1>>, pageIndex |-> 0 - 1, rotation |-> 0,
     thumbnail |-> UndefinedThumbnail]

\* reorder of the page manager
reorderPages(list, startIndex, endIndex) ==
    LET removed == IF startIndex >= Len(list) THEN UndefinedPage ELSE list[startIndex + 1]
    IN  spliceIn(spliceOut(list, startIndex), endIndex, removed)

\* pdfjsLib.getDocument({ data }).promise: the document is stood for by the
\* file it was read from
getDocument(file) ==
    IF ~file.valid THEN Rejected(<<"Invalid PDF structure.">>)
    ELSE Fulfilled(file)

\* pdfDoc.getPage(pageNumber): pdf.js numbers pages from 1 and rejects any
\* other number; the page is stood for by its 0-based index in the file
getPage(pdfDoc, pageNumber) ==
    IF pageNumber < 1 \/ pageNumber > Len(pdfDoc.rots)
        THEN Rejected(<<"Invalid page request.">>)
    ELSE Fulfilled(pageNumber - 1)

\* generatePageThumbnail: the picture of the page that getPage returned,
\* turned by rotation, or "" when anything inside the try threw
generatePageThumbnail(pdfDoc, pageIndex, rotation) ==
    LET page == getPage(pdfDoc, pageIndex)
    IN  IF page.threw THEN EmptyThumbnail
        ELSE [doc |-> pdfDoc.name, idx |-> page.value, rotation |-> rotation]

\* the loop of applyPageTransforms putting each page before the ones added
RECURSIVE transformPagesPrepend(_, _, _)
transformPagesPrepend(srcPdf, order, outPdf) ==
    IF order = <<>> THEN Fulfilled(outPdf)
    ELSE LET item == Head(order)
             copied == copyPages(srcPdf, <<item.pageIndex>>)
         IN  IF copied.threw THEN copied
             ELSE LET page == IF item.rotation # 0
                                  THEN [copied.value[1] EXCEPT !.rot = item.rotation]
                              ELSE copied.value[1]
                  IN  transformPagesPrepend(srcPdf, Tail(order), <<page>> \o outPdf)

\* the loop of applyPageTransforms over order
RECURSIVE transformPages(_, _, _)
transformPages(srcPdf, order, outPdf) ==
    IF order = <<>> THEN Fulfilled(outPdf)
    ELSE LET item == Head(order)
             copied == copyPages(srcPdf, <<item.pageIndex>>)
         IN  IF copied.threw THEN copied
             ELSE LET page == IF item.rotation # 0
                                  THEN [copied.value[1] EXCEPT !.rot = item.rotation]
                              ELSE copied.value[1]
                  IN  transformPages(srcPdf, Tail(order), addPage(outPdf, page))

applyPageTransforms(file, order) ==
    LET srcPdf == loadPdfDocument(file)
    IN  IF srcPdf.threw THEN srcPdf
        ELSE transformPages(srcPdf.value, order, createDocument)

\* the JavaScript % of a possibly negative number by a positive one
jsRemainder(a, b) == IF a >= 0 THEN a % b ELSE 0 - ((0 - a) % b)

\* the rotation handleRotate computes
rotated(rotation, direction) ==
    LET delta == IF direction = "left" THEN 0 - 90 ELSE 90
        next == jsRemainder(rotation + delta, 360)
    IN  IF next < 0 THEN next + 360 ELSE next

ManagerFrame == UNCHANGED <<rangeVars, helperVars, splitVars, mergeVars, rotateVars, numbersVars, imagesVars, outVars, textVars, annotateVars, editVars, networkVars, extractTextVars>>

InitManager ==
    /\ IdleRanges
    /\ IdleHelpers
    /\ MountedSplit
    /\ MountedMerge
    /\ MountedManager
    /\ IdleRotate
    /\ MountedNumbers
    /\ MountedImages
    /\ MountedOut
    /\ IdleText
    /\ MountedAnnotate
    /\ MountedEdit
    /\ IdleNetwork
    /\ MountedExtractText

\* rendering pages.map((page, index) => ... page.id ...) throws on an
\* undefined entry
ManagerRenderThrows(pages) == \E k \in 1..Len(pages) : pages[k] = UndefinedPage

\* onFilesSelected: setFile(files[0]), setError(null); the effect on [file]
\* starts a run of load, which awaits the pdf.js document
ManagerSelectFile(f) ==
    /\ ~pCrashed
    /\ pEvents < MaxManagerEvents
    /\ pSelections < MaxManagerSelections
    /\ pEvents' = pEvents + 1
    /\ pSelections' = pSelections + 1
    /\ pFile' = f
    /\ pError' = NoError
    /\ pLoads' = pLoads \cup {[id |-> pEvents, file |-> f]}
    /\ UNCHANGED <<pPages, pPageCount, pDragIndex, pIsProcessing, pPdfDoc,
                   pIsLoadingThumbnails, pThumbs, pRotates, pRun, pDownloads,
                   pCrashed, pClock>>
    /\ ManagerFrame

\* a run of load gets its pdf.js document, or the rejection that its catch
\* turns into the error; with the document it sets the page list and starts
\* the thumbnails
ManagerLoadSettles(task) ==
    /\ ~pCrashed
    /\ task \in pLoads
    /\ pLoads' = pLoads \ {task}
    /\ LET pdf == getDocument(task.file)
       IN  IF pdf.threw
               THEN /\ pError' = pdf.message
                    /\ UNCHANGED <<pPdfDoc, pPageCount, pPages, pIsLoadingThumbnails,
                                   pThumbs, pClock>>
           ELSE LET count == Len(pdf.value.rots)
                    items == [k \in 1..count |->
                                 [id |-> <<pClock, k - 1>>, pageIndex |-> k - 1,
                                  rotation |-> 0, thumbnail |-> UndefinedThumbnail]]
                IN  /\ pPdfDoc' = pdf.value
                    /\ pPageCount' = count
                    /\ pPages' = items
                    /\ pIsLoadingThumbnails' = TRUE
                    /\ pThumbs' = pThumbs \cup
                           {[id |-> task.id,
                             thumbnails |-> [k \in 1..count |->
                                 generatePageThumbnail(pdf.value, items[k].pageIndex, 0)]]}
                    /\ pClock' = pClock + 1
                    /\ pError' = pError
    /\ UNCHANGED <<pFile, pDragIndex, pIsProcessing, pRotates, pRun, pDownloads,
                   pCrashed, pEvents, pSelections>>
    /\ ManagerFrame

\* Promise.all(thumbnails) of a run of load settles: every item of the list
\* as it stands now gets thumbnails[idx] for its position idx
ManagerThumbnailsSettle(job) ==
    /\ ~pCrashed
    /\ job \in pThumbs
    /\ pThumbs' = pThumbs \ {job}
    /\ pPages' = [idx \in 1..Len(pPages) |->
                     [pPages[idx] EXCEPT !.thumbnail =
                         IF idx <= Len(job.thumbnails) THEN job.thumbnails[idx]
                         ELSE UndefinedThumbnail]]
    /\ pIsLoadingThumbnails' = FALSE
    /\ UNCHANGED <<pFile, pPageCount, pDragIndex, pIsProcessing, pError, pPdfDoc,
                   pLoads, pRotates, pRun, pDownloads, pCrashed, pEvents, pClock,
                   pSelections>>
    /\ ManagerFrame

\* handleRotate(page.id, direction) of row index, up to its await
handleRotate(index, direction) ==
    /\ ~pCrashed
    /\ pEvents < MaxManagerEvents
    /\ index \in 0..(Len(pPages) - 1)
    /\ pEvents' = pEvents + 1
    /\ LET id == pPages[index + 1].id
           pageToUpdate == pPages[CHOOSE k \in 1..Len(pPages) :
                                      /\ pPages[k].id = id
                                      /\ \A j \in 1..(k - 1) : pPages[j].id # id]
           updatedPage == [pageToUpdate EXCEPT
                               !.rotation = rotated(pageToUpdate.rotation, direction)]
       IN  /\ pPages' = [k \in 1..Len(pPages) |->
                            IF pPages[k].id = id THEN updatedPage ELSE pPages[k]]
           /\ IF pPdfDoc # NullFile
                  THEN pRotates' = pRotates \cup
                           {[at |-> pEvents, id |-> id,
                             thumbnail |-> generatePageThumbnail(pPdfDoc,
                                               updatedPage.pageIndex,
                                               updatedPage.rotation)]}
              ELSE pRotates' = pRotates
    /\ UNCHANGED <<pFile, pPageCount, pDragIndex, pIsProcessing, pError, pPdfDoc,
                   pIsLoadingThumbnails, pLoads, pThumbs, pRun, pDownloads, pCrashed,
                   pClock, pSelections>>
    /\ ManagerFrame

\* generatePageThumbnail settles inside a run of handleRotate
ManagerRotateSettles(job) ==
    /\ ~pCrashed
    /\ job \in pRotates
    /\ pRotates' = pRotates \ {job}
    /\ pPages' = [k \in 1..Len(pPages) |->
                     IF pPages[k].id = job.id
                         THEN [pPages[k] EXCEPT !.thumbnail = job.thumbnail]
                     ELSE pPages[k]]
    /\ UNCHANGED <<pFile, pPageCount, pDragIndex, pIsProcessing, pError, pPdfDoc,
                   pIsLoadingThumbnails, pLoads, pThumbs, pRun, pDownloads, pCrashed,
                   pEvents, pClock, pSelections>>
    /\ ManagerFrame

\* handleDelete(page.id) of row index
handleDelete(index) ==
    /\ ~pCrashed
    /\ pEvents < MaxManagerEvents
    /\ index \in 0..(Len(pPages) - 1)
    /\ pEvents' = pEvents + 1
    /\ pPages' = SelectSeq(pPages, LAMBDA p : p.id # pPages[index + 1].id)
    /\ UNCHANGED <<pFile, pPageCount, pDragIndex, pIsProcessing, pError, pPdfDoc,
                   pIsLoadingThumbnails, pLoads, pThumbs, pRotates, pRun, pDownloads,
                   pCrashed, pClock, pSelections>>
    /\ ManagerFrame

\* onDragStart of row index
ManagerDragStart(index) ==
    /\ ~pCrashed
    /\ pEvents < MaxManagerEvents
    /\ index \in 0..(Len(pPages) - 1)
    /\ pEvents' = pEvents + 1
    /\ pDragIndex' = index
    /\ UNCHANGED <<pFile, pPages, pPageCount, pIsProcessing, pError, pPdfDoc,
                   pIsLoadingThumbnails, pLoads, pThumbs, pRotates, pRun, pDownloads,
                   pCrashed, pClock, pSelections>>
    /\ ManagerFrame

\* onDrop of row index: whatever is dragged over the row can be dropped on it
ManagerDrop(index) ==
    /\ ~pCrashed
    /\ pEvents < MaxManagerEvents
    /\ index \in 0..(Len(pPages) - 1)
    /\ pEvents' = pEvents + 1
    /\ IF pDragIndex = NullIndex \/ pDragIndex = index
           THEN UNCHANGED <<pPages, pDragIndex, pCrashed>>
       ELSE /\ pPages' = reorderPages(pPages, pDragIndex, index)
            /\ pDragIndex' = NullIndex
            /\ pCrashed' = ManagerRenderThrows(pPages')
    /\ UNCHANGED <<pFile, pPageCount, pIsProcessing, pError, pPdfDoc,
                   pIsLoadingThumbnails, pLoads, pThumbs, pRotates, pRun, pDownloads,
                   pClock, pSelections>>
    /\ ManagerFrame

\* what handleApply decides before its try: the error it sets and returns
\* with, or NoError when it goes on
applyRefusal(file, pages) ==
    IF file = NullFile THEN <<"Please upload a PDF first.">>
    ELSE IF Len(pages) = 0 THEN <<"There are no pages left to keep.">>
    ELSE NoError

\* handleApply up to its await ("Generate updated PDF", disabled while
\* isProcessing, without a file or with an empty list)
handleApply ==
    /\ ~pCrashed
    /\ pEvents < MaxManagerEvents
    /\ ~(pIsProcessing \/ pFile = NullFile \/ Len(pPages) = 0)
    /\ pEvents' = pEvents + 1
    /\ IF applyRefusal(pFile, pPages) # NoError
           THEN /\ pError' = applyRefusal(pFile, pPages)
                /\ UNCHANGED <<pIsProcessing, pRun>>
       ELSE /\ pIsProcessing' = TRUE
            /\ pError' = NoError
            /\ pRun' = pRun \cup
                   {[file |-> pFile,
                     order |-> [k \in 1..Len(pPages) |->
                                   [pageIndex |-> pPages[k].pageIndex,
                                    rotation |-> pPages[k].rotation]]]}
    /\ UNCHANGED <<pFile, pPages, pPageCount, pDragIndex, pPdfDoc,
                   pIsLoadingThumbnails, pLoads, pThumbs, pRotates, pDownloads,
                   pCrashed, pClock, pSelections>>
    /\ ManagerFrame

\* applyPageTransforms settles inside a run of handleApply
ManagerRunSettles(run) ==
    /\ ~pCrashed
    /\ run \in pRun
    /\ pRun' = pRun \ {run}
    /\ LET updated == applyPageTransforms(run.file, run.order)
       IN  IF updated.threw
               THEN pError' = updated.message /\ pDownloads' = pDownloads
           ELSE /\ pDownloads' = Append(pDownloads, [filename |-> "pages-updated.pdf",
                                                     data |-> updated.value])
                /\ pError' = pError
    /\ pIsProcessing' = FALSE
    /\ UNCHANGED <<pFile, pPages, pPageCount, pDragIndex, pPdfDoc,
                   pIsLoadingThumbnails, pLoads, pThumbs, pRotates, pCrashed, pEvents,
                   pClock, pSelections>>
    /\ ManagerFrame

NextManager ==
    \/ \E f \in ManagerFiles : ManagerSelectFile(f)
    \/ \E task \in pLoads : ManagerLoadSettles(task)
    \/ \E job \in pThumbs : ManagerThumbnailsSettle(job)
    \/ \E index \in 0..(Len(pPages) - 1), direction \in {"left", "right"} :
           handleRotate(index, direction)
    \/ \E job \in pRotates : ManagerRotateSettles(job)
    \/ \E index \in 0..(Len(pPages) - 1) : handleDelete(index)
    \/ \E index \in 0..(Len(pPages) - 1) : ManagerDragStart(index)
    \/ \E index \in 0..(Len(pPages) - 1) : ManagerDrop(index)
    \/ handleApply
    \/ \E run \in pRun : ManagerRunSettles(run)

SpecManager == InitManager /\ [][NextManager]_vars

\* the list as handleApply hands it to applyPageTransforms
OrderOf(pages) ==
    [k \in 1..Len(pages) |->
        [pageIndex |-> pages[k].pageIndex, rotation |-> pages[k].rotation]]

\* every entry of order names a page that the file has
OrderWithin(file, order) ==
    \A k \in 1..Len(order) :
        order[k].pageIndex >= 0 /\ order[k].pageIndex < Len(file.rots)

\* C4 as stated, on the page manager: whenever a document operation fails
\* (the document cannot be loaded, a thumbnail cannot be rendered, or
\* applyPageTransforms throws) the page is left with a non-empty error
\* message, and a failed run of "Generate updated PDF" also leaves no download
\* and isProcessing false.
C4_FailureSetsError ==
    [][/\ \A task \in pLoads :
              (ManagerLoadSettles(task) /\ getDocument(task.file).threw) =>
                  pError' # NoError
       /\ \A job \in pThumbs :
              (/\ ManagerThumbnailsSettle(job)
               /\ \E k \in 1..Len(job.thumbnails) : job.thumbnails[k] = EmptyThumbnail) =>
                  pError' # NoError
       /\ \A job \in pRotates :
              (ManagerRotateSettles(job) /\ job.thumbnail = EmptyThumbnail) =>
                  pError' # NoError
       /\ \A run \in pRun :
              (ManagerRunSettles(run) /\ applyPageTransforms(run.file, run.order).threw) =>
                  /\ pError' # NoError
                  /\ pDownloads' = pDownloads
                  /\ ~pIsProcessing'
      ]_vars

\* C5 as stated, on the page manager: at any moment at most one asynchronous
\* document operation is in flight, counting the runs of load (up to the end
\* of their thumbnails) and the runs of "Generate updated PDF".
C5_AtMostOneInFlight ==
    Cardinality(pLoads) + Cardinality(pThumbs) + Cardinality(pRun) <= 1

\* C10: "Generate updated PDF" takes the list as it stands when it is
\* clicked; the document it downloads has exactly one page per item of that
\* list, in list order, the k-th page being a copy of the page at
\* list[k].pageIndex of the file held in state at the click, so a deleted item
\* leaves no page; every run whose file loads and has all the listed pages
\* ends in that download; no run starts from an empty list, for which
\* handleApply has the error "There are no pages left to keep.".
C10_OutputReflectsList ==
    [][/\ (handleApply /\ pIsProcessing') =>
              pRun' \ pRun = {[file |-> pFile, order |-> OrderOf(pPages)]}
       /\ \A run \in pRun :
              ManagerRunSettles(run) =>
                  IF run.file.valid /\ OrderWithin(run.file, run.order)
                      THEN /\ Len(pDownloads') = Len(pDownloads) + 1
                           /\ LET out == pDownloads'[Len(pDownloads')].data
                              IN  /\ Len(out) = Len(run.order)
                                  /\ \A k \in 1..Len(out) :
                                         /\ out[k].doc = run.file.name
                                         /\ out[k].idx = run.order[k].pageIndex
                  ELSE pDownloads' = pDownloads /\ pError' # NoError
       /\ Len(pPages) = 0 => pRun' \subseteq pRun
       /\ \A f \in ManagerFiles :
              applyRefusal(f, <<>>) = <<"There are no pages left to keep.">>
      ]_vars

\* file A was loaded, its second page dragged above the first, and the
\* updated PDF generated
C10_Witness ==
    /\ pFile.name = "A"
    /\ Len(pPages) = 2
    /\ pPages[1].pageIndex = 1
    /\ pPages[2].pageIndex = 0
    /\ Len(pDownloads) = 1
    /\ [k \in 1..Len(pDownloads[1].data) |->
            <<pDownloads[1].data[k].doc, pDownloads[1].data[k].idx>>]
           = << <<"A", 1>>, <<"A", 0>> >>

\* C11 as stated: every page of the document that "Generate updated PDF"
\* downloads has the rotation (rotation the source page has in the file +
\* rotation of its list item) mod 360.
C11_RotationAddsToSource ==
    [][\A run \in pRun :
           (ManagerRunSettles(run) /\ Len(pDownloads') = Len(pDownloads) + 1) =>
               LET out == pDownloads'[Len(pDownloads')].data
               IN  \A k \in 1..Len(out) :
                       out[k].rot =
                           (run.file.rots[run.order[k].pageIndex + 1]
                                + run.order[k].rotation) % 360
      ]_vars

(***************************************************************************)
(* Specification SpecRotate: rotateAllPages applied to its own output      *)
(***************************************************************************)

\* pages of the largest rotated document
MaxRotatePages == 2

\* calls of rotateAllPages in a row
MaxRotateCalls == 4

\* /Rotate entries a page can carry: multiples of 90, below 0 and past 360 too
PageRotations == {0 - 180, 0 - 90, 0, 90, 180, 270, 450}

RotateFiles ==
    {[name |-> "R", valid |-> TRUE, rots |-> rots] :
        rots \in UNION {[1..n -> PageRotations] : n \in 1..MaxRotatePages}}

\* the loop of rotateAllPages: newRotation = (currentRotation + rotation) % 360
\* with the % of JavaScript, which keeps the sign of a negative sum
rotatePages(pages, rotation) ==
    [i \in 1..Len(pages) |->
        [pages[i] EXCEPT !.rot = jsRemainder(pages[i].rot + rotation, 360)]]

rotateAllPages(file, rotation) ==
    LET pdfDoc == loadPdfDocument(file)
    IN  IF pdfDoc.threw THEN pdfDoc
        ELSE Fulfilled(rotatePages(pdfDoc.value, rotation))

\* the saved bytes read as a file again
SavedFile(name, pages) ==
    [name |-> name, valid |-> TRUE, rots |-> [i \in 1..Len(pages) |-> pages[i].rot]]

RotateFrame ==
    UNCHANGED <<rangeVars, helperVars, splitVars, mergeVars, managerVars, numbersVars, imagesVars, outVars, textVars, annotateVars, editVars, networkVars, extractTextVars>>

InitRotate ==
    /\ IdleRanges
    /\ IdleHelpers
    /\ MountedSplit
    /\ MountedMerge
    /\ MountedManager
    /\ rotOrig \in RotateFiles
    /\ rotFile = rotOrig
    /\ rotApplied = <<>>
    /\ MountedNumbers
    /\ MountedImages
    /\ MountedOut
    /\ IdleText
    /\ MountedAnnotate
    /\ MountedEdit
    /\ IdleNetwork
    /\ MountedExtractText

\* one call of rotateAllPages on the output of the call before
CallRotateAllPages(rotation) ==
    /\ Len(rotApplied) < MaxRotateCalls
    /\ LET rotatedData == rotateAllPages(rotFile, rotation)
       IN  /\ ~rotatedData.threw
           /\ rotFile' = SavedFile(rotFile.name, rotatedData.value)
    /\ rotApplied' = Append(rotApplied, rotation)
    /\ rotOrig' = rotOrig
    /\ RotateFrame

NextRotate ==
    \/ CallRotateAllPages(90)
    \/ CallRotateAllPages(180)
    \/ CallRotateAllPages(270)

SpecRotate == InitRotate /\ [][NextRotate]_vars

\* C12 as stated: a call of rotateAllPages keeps the number and the order of
\* the pages, gives every page the rotation (previous rotation + r) mod 360,
\* a value in {0, 90, 180, 270}, also for a negative previous rotation; so
\* 90 applied four times, or 90 and then 270, brings every page back to the
\* orientation it had.
C12_RotateAllAddsModulo360 ==
    [][\A r \in {90, 180, 270} :
           CallRotateAllPages(r) =>
               /\ Len(rotFile'.rots) = Len(rotFile.rots)
               /\ rotateAllPages(rotFile, r).value =
                      [i \in 1..Len(rotFile.rots) |->
                          [doc |-> rotFile.name, idx |-> i - 1,
                           rot |-> (rotFile.rots[i] + r) % 360]]
               /\ \A i \in 1..Len(rotFile'.rots) :
                      rotFile'.rots[i] \in {0, 90, 180, 270}
               /\ (rotApplied' = <<90, 90, 90, 90>> \/ rotApplied' = <<90, 270>>) =>
                      \A i \in 1..Len(rotFile'.rots) :
                          rotFile'.rots[i] % 360 = rotOrig.rots[i] % 360
      ]_vars

(***************************************************************************)
(* Specification SpecNumbers: the page numbers page                        *)
(***************************************************************************)

\* user events in one run of the page numbers page
MaxNumbersEvents == 4

\* pages of the numbered document
MaxNumbersPages == 2

NumbersFiles == {PdfFile("N", n) : n \in 1..MaxNumbersPages} \cup {BadFile("X")}

\* what e.target.value of the start number field can be
StartTexts ==
    {<<>>, <<"0">>, <<"-", "3">>, <<"5">>, <<"1", "0">>, <<"2", ".", "7">>,
     <<"1", "e", "5">>, <<"a">>}

\* Math.max(1, Number.parseInt(e.target.value, 10) || 1): NaN and 0 are falsy
startNumberOf(text) ==
    LET parsed == parseInt(text)
        orOne  == IF parsed.nan \/ parsed.val = 0 THEN 1 ELSE parsed.val
    IN  IF orOne > 1 THEN orOne ELSE 1

\* the label of the switch on options.format
pageLabel(format, logicalNumber, pageCount) ==
    IF format = "page-x" THEN <<"P", "a", "g", "e", " ">> \o toString(logicalNumber)
    ELSE IF format = "x-of-n"
        THEN toString(logicalNumber) \o <<" ", "/", " ">> \o toString(pageCount)
    ELSE toString(logicalNumber)

\* the loop of addPageNumbers counting the first page as startNumber + 1
drawLabelsFromOne(pages, options) ==
    [k \in 1..Len(pages) |->
        [page  |-> pages[k],
         drawn |-> <<[text |-> pageLabel(options.format, options.startNumber + k,
                                         Len(pages)),
                      position |-> options.position, align |-> options.align]>>]]

\* the loop of addPageNumbers: page.drawText(label, ...) once on the page at
\* every index, with logicalNumber = options.startNumber + index
drawLabels(pages, options) ==
    [k \in 1..Len(pages) |->
        [page  |-> pages[k],
         drawn |-> <<[text |-> pageLabel(options.format,
                                         options.startNumber + (k - 1), Len(pages)),
                      position |-> options.position, align |-> options.align]>>]]

addPageNumbers(options) ==
    LET pdfDoc == loadPdfDocument(options.file)
    IN  IF pdfDoc.threw THEN pdfDoc
        ELSE Fulfilled(drawLabels(pdfDoc.value, options))

NumbersFrame ==
    UNCHANGED <<rangeVars, helperVars, splitVars, mergeVars, managerVars, rotateVars, imagesVars, outVars, textVars, annotateVars, editVars, networkVars, extractTextVars>>

InitNumbers ==
    /\ IdleRanges
    /\ IdleHelpers
    /\ MountedSplit
    /\ MountedMerge
    /\ MountedManager
    /\ IdleRotate
    /\ MountedNumbers
    /\ MountedImages
    /\ MountedOut
    /\ IdleText
    /\ MountedAnnotate
    /\ MountedEdit
    /\ IdleNetwork
    /\ MountedExtractText

\* onFilesSelected: setFile(files[0]), setError(null); the effect on [file]
\* starts a run of load
NumbersSelectFile(f) ==
    /\ nEvents < MaxNumbersEvents
    /\ nEvents' = nEvents + 1
    /\ nFile' = f
    /\ nError' = NoError
    /\ nLoads' = nLoads \cup {[id |-> nEvents, file |-> f]}
    /\ UNCHANGED <<nPageCount, nPosition, nAlign, nStartNumber, nFormat,
                   nIsProcessing, nRun, nDownloads>>
    /\ NumbersFrame

\* a run of load settles
NumbersLoadSettles(task) ==
    /\ task \in nLoads
    /\ nLoads' = nLoads \ {task}
    /\ LET pdfDoc == loadPdfDocument(task.file)
       IN  IF pdfDoc.threw
               THEN nError' = pdfDoc.message /\ nPageCount' = nPageCount
           ELSE nPageCount' = Len(pdfDoc.value) /\ nError' = nError
    /\ UNCHANGED <<nFile, nPosition, nAlign, nStartNumber, nFormat, nIsProcessing,
                   nRun, nDownloads, nEvents>>
    /\ NumbersFrame

\* the "Header" / "Footer" and "Left" / "Center" / "Right" buttons
NumbersSetPlace(position, align) ==
    /\ nEvents < MaxNumbersEvents
    /\ nEvents' = nEvents + 1
    /\ nPosition' = position
    /\ nAlign' = align
    /\ position = nPosition \/ align = nAlign
    /\ UNCHANGED <<nFile, nPageCount, nStartNumber, nFormat, nIsProcessing, nError,
                   nLoads, nRun, nDownloads>>
    /\ NumbersFrame

\* onChange of the start number field
NumbersSetStartNumber(text) ==
    /\ nEvents < MaxNumbersEvents
    /\ nEvents' = nEvents + 1
    /\ nStartNumber' = startNumberOf(text)
    /\ UNCHANGED <<nFile, nPageCount, nPosition, nAlign, nFormat, nIsProcessing,
                   nError, nLoads, nRun, nDownloads>>
    /\ NumbersFrame

\* the "Page X", "X / N" and "X" buttons
NumbersSetFormat(format) ==
    /\ nEvents < MaxNumbersEvents
    /\ nEvents' = nEvents + 1
    /\ nFormat' = format
    /\ UNCHANGED <<nFile, nPageCount, nPosition, nAlign, nStartNumber, nIsProcessing,
                   nError, nLoads, nRun, nDownloads>>
    /\ NumbersFrame

\* handleApply of the page numbers page up to its await ("Add page
\* numbers", disabled while isProcessing or without a file)
NumbersHandleApply ==
    /\ nEvents < MaxNumbersEvents
    /\ ~(nIsProcessing \/ nFile = NullFile)
    /\ nEvents' = nEvents + 1
    /\ IF nFile = NullFile
           THEN /\ nError' = <<"Please upload a PDF first.">>
                /\ UNCHANGED <<nIsProcessing, nRun>>
       ELSE /\ nIsProcessing' = TRUE
            /\ nError' = NoError
            /\ nRun' = nRun \cup {[file |-> nFile, position |-> nPosition,
                                   align |-> nAlign, startNumber |-> nStartNumber,
                                   format |-> nFormat]}
    /\ UNCHANGED <<nFile, nPageCount, nPosition, nAlign, nStartNumber, nFormat,
                   nLoads, nDownloads>>
    /\ NumbersFrame

\* addPageNumbers settles inside a run of handleApply
NumbersRunSettles(run) ==
    /\ run \in nRun
    /\ nRun' = nRun \ {run}
    /\ LET data == addPageNumbers(run)
       IN  IF data.threw
               THEN nError' = data.message /\ nDownloads' = nDownloads
           ELSE /\ nDownloads' = Append(nDownloads, [filename |-> "page-numbers.pdf",
                                                     data |-> data.value])
                /\ nError' = nError
    /\ nIsProcessing' = FALSE
    /\ UNCHANGED <<nFile, nPageCount, nPosition, nAlign, nStartNumber, nFormat,
                   nLoads, nEvents>>
    /\ NumbersFrame

NextNumbers ==
    \/ \E f \in NumbersFiles : NumbersSelectFile(f)
    \/ \E task \in nLoads : NumbersLoadSettles(task)
    \/ \E position \in {"header", "footer"}, align \in {"left", "center", "right"} :
           NumbersSetPlace(position, align)
    \/ \E text \in StartTexts : NumbersSetStartNumber(text)
    \/ \E format \in {"page-x", "x-of-n", "x"} : NumbersSetFormat(format)
    \/ NumbersHandleApply
    \/ \E run \in nRun : NumbersRunSettles(run)

SpecNumbers == InitNumbers /\ [][NextNumbers]_vars

\* the digits of a positive number, most significant first
RECURSIVE RefDecimal(_)
RefDecimal(n) ==
    IF n < 10 THEN <<DigitChars[n + 1]>>
    ELSE Append(RefDecimal(n \div 10), DigitChars[(n % 10) + 1])

\* 'Page X', 'X / N' or 'X'
RefLabel(format, x, n) ==
    CASE format = "page-x" -> <<"P", "a", "g", "e", " ">> \o RefDecimal(x)
      [] format = "x-of-n" -> RefDecimal(x) \o <<" ", "/", " ">> \o RefDecimal(n)
      [] format = "x"      -> RefDecimal(x)

\* C13: startNumber held by the page is always an integer >= 1 whatever is
\* typed into the field, and the document a run of "Add page numbers"
\* downloads has the pages of the file in their order, each with exactly one
\* label drawn: the page at 1-based position i gets X = startNumber + i - 1
\* as 'Page X', 'X / N' (N the page count of the document) or 'X' according to
\* the format chosen at the click.
C13_OneLabelPerPage ==
    [][/\ nStartNumber' \in Nat /\ nStartNumber' >= 1
       /\ \A run \in nRun :
              (NumbersRunSettles(run) /\ run.file.valid) =>
                  /\ Len(nDownloads') = Len(nDownloads) + 1
                  /\ LET out == nDownloads'[Len(nDownloads')].data
                         n   == Len(run.file.rots)
                     IN  /\ Len(out) = n
                         /\ \A i \in 1..n :
                                /\ out[i].page = SourcePage(run.file, i)
                                /\ Len(out[i].drawn) = 1
                                /\ out[i].drawn[1].text =
                                       RefLabel(run.format, run.startNumber + i - 1, n)
      ]_vars

\* "10" was typed as start number, "X / N" chosen, and a two-page file numbered
C13_Witness ==
    /\ nStartNumber = 10
    /\ nFormat = "x-of-n"
    /\ Len(nDownloads) = 1
    /\ Len(nDownloads[1].data) = 2
    /\ nDownloads[1].data[1].drawn[1].text = <<"1", "0", " ", "/", " ", "2">>
    /\ nDownloads[1].data[2].drawn[1].text = <<"1", "1", " ", "/", " ", "2">>

(***************************************************************************)
(* Specification SpecImages: the images to PDF page                        *)
(***************************************************************************)

\* user events in one run of the images to PDF page
MaxImagesEvents == 4

\* an image file: the type the browser reports and the format of its bytes
ImageFile(name, type, format) == [name |-> name, type |-> type, format |-> format]

\* what one use of the file picker (or one drop) can hand over
ImageSelections ==
    {<<ImageFile("a.jpg", "image/jpeg", "jpeg")>>,
     <<ImageFile("b.png", "image/png", "png"), ImageFile("c.jpg", "image/jpeg", "jpeg")>>,
     <<ImageFile("d.gif", "image/gif", "gif")>>,
     <<ImageFile("e.pdf", "application/pdf", "pdf"),
       ImageFile("a.jpg", "image/jpeg", "jpeg")>>,
     <<ImageFile("f.png", "image/png", "jpeg")>>}

\* what takes the place of a missing element of images
UndefinedImage ==
    [id |-> <<0 - 1, 0, "undefined">>, file |-> ImageFile("undefined", "", "")]

\* reorder of the images to PDF page
reorderImages(list, startIndex, endIndex) ==
    LET removed == IF startIndex >= Len(list) THEN UndefinedImage
                   ELSE list[startIndex + 1]
    IN  spliceIn(spliceOut(list, startIndex), endIndex, removed)

\* pdfDoc.embedPng(bytes) / pdfDoc.embedJpg(bytes): bytes of another format
\* make them throw
embedImage(file) ==
    LET isPng == file.type = "image/png"
    IN  IF isPng
            THEN IF file.format = "png" THEN Fulfilled(file.name)
                 ELSE Rejected(<<"The input is not a PNG file!">>)
        ELSE IF file.format = "jpeg" THEN Fulfilled(file.name)
             ELSE Rejected(<<"SOI not found in JPEG">>)

\* the loop of createPdfFromImages putting each page before the ones added
RECURSIVE imagePagesPrepend(_, _, _, _)
imagePagesPrepend(items, pdfDoc, pageSize, orientation) ==
    IF items = <<>> THEN Fulfilled(pdfDoc)
    ELSE LET embedded == embedImage(Head(items).file)
         IN  IF embedded.threw THEN embedded
             ELSE imagePagesPrepend(Tail(items),
                      <<[image |-> embedded.value, size |-> pageSize,
                         orientation |-> orientation]>> \o pdfDoc,
                      pageSize, orientation)

\* the loop of createPdfFromImages: for every item a new page of the chosen
\* size with the embedded image drawn on it
RECURSIVE imagePages(_, _, _, _)
imagePages(items, pdfDoc, pageSize, orientation) ==
    IF items = <<>> THEN Fulfilled(pdfDoc)
    ELSE LET embedded == embedImage(Head(items).file)
         IN  IF embedded.threw THEN embedded
             ELSE imagePages(Tail(items),
                      addPage(pdfDoc, [image |-> embedded.value, size |-> pageSize,
                                       orientation |-> orientation]),
                      pageSize, orientation)

createPdfFromImages(items, pageSize, orientation) ==
    imagePages(items, createDocument, pageSize, orientation)

ImagesFrame ==
    UNCHANGED <<rangeVars, helperVars, splitVars, mergeVars, managerVars, rotateVars,
                numbersVars, outVars, textVars, annotateVars, editVars, networkVars, extractTextVars>>

InitImages ==
    /\ IdleRanges
    /\ IdleHelpers
    /\ MountedSplit
    /\ MountedMerge
    /\ MountedManager
    /\ IdleRotate
    /\ MountedNumbers
    /\ MountedImages
    /\ MountedOut
    /\ IdleText
    /\ MountedAnnotate
    /\ MountedEdit
    /\ IdleNetwork
    /\ MountedExtractText

\* rendering images.map((item, index) => ... item.id ...) throws on an
\* undefined entry
ImagesRenderThrows(images) == \E k \in 1..Len(images) : images[k] = UndefinedImage

\* handleFilesSelected of the images to PDF page
ImagesHandleFilesSelected(files) ==
    /\ ~iCrashed
    /\ iEvents < MaxImagesEvents
    /\ iEvents' = iEvents + 1
    /\ LET valid == SelectSeq(files,
                        LAMBDA file : file.type \in {"image/jpeg", "image/png"})
       IN  IF Len(valid) = 0
               THEN /\ iError' = <<"Please select JPG or PNG images.">>
                    /\ iImages' = iImages
           ELSE /\ iImages' = iImages \o
                        [k \in 1..Len(valid) |->
                            [id |-> <<iEvents, k - 1, valid[k].name>>, file |-> valid[k]]]
                /\ iError' = NoError
    /\ UNCHANGED <<iDragIndex, iOrientation, iPageSize, iIsProcessing, iRun,
                   iDownloads, iCrashed>>
    /\ ImagesFrame

\* onDragStart of row index
ImagesDragStart(index) ==
    /\ ~iCrashed
    /\ iEvents < MaxImagesEvents
    /\ index \in 0..(Len(iImages) - 1)
    /\ iEvents' = iEvents + 1
    /\ iDragIndex' = index
    /\ UNCHANGED <<iImages, iOrientation, iPageSize, iIsProcessing, iError, iRun,
                   iDownloads, iCrashed>>
    /\ ImagesFrame

\* onDrop of row index
ImagesDrop(index) ==
    /\ ~iCrashed
    /\ iEvents < MaxImagesEvents
    /\ index \in 0..(Len(iImages) - 1)
    /\ iEvents' = iEvents + 1
    /\ IF iDragIndex = NullIndex \/ iDragIndex = index
           THEN UNCHANGED <<iImages, iDragIndex, iCrashed>>
       ELSE /\ iImages' = reorderImages(iImages, iDragIndex, index)
            /\ iDragIndex' = NullIndex
            /\ iCrashed' = ImagesRenderThrows(iImages')
    /\ UNCHANGED <<iOrientation, iPageSize, iIsProcessing, iError, iRun, iDownloads>>
    /\ ImagesFrame

\* "Remove" of row index
ImagesRemove(index) ==
    /\ ~iCrashed
    /\ iEvents < MaxImagesEvents
    /\ index \in 0..(Len(iImages) - 1)
    /\ iEvents' = iEvents + 1
    /\ iImages' = SelectSeq(iImages,
                      LAMBDA existing : existing.id # iImages[index + 1].id)
    /\ UNCHANGED <<iDragIndex, iOrientation, iPageSize, iIsProcessing, iError, iRun,
                   iDownloads, iCrashed>>
    /\ ImagesFrame

\* the "Portrait" / "Landscape" and "A4" / "Letter" buttons
ImagesSetLayout(orientation, pageSize) ==
    /\ ~iCrashed
    /\ iEvents < MaxImagesEvents
    /\ orientation = iOrientation \/ pageSize = iPageSize
    /\ iEvents' = iEvents + 1
    /\ iOrientation' = orientation
    /\ iPageSize' = pageSize
    /\ UNCHANGED <<iImages, iDragIndex, iIsProcessing, iError, iRun, iDownloads,
                   iCrashed>>
    /\ ImagesFrame

\* handleGenerate up to its await ("Generate PDF", disabled while
\* isProcessing or with an empty list)
handleGenerate ==
    /\ ~iCrashed
    /\ iEvents < MaxImagesEvents
    /\ ~(iIsProcessing \/ Len(iImages) = 0)
    /\ iEvents' = iEvents + 1
    /\ IF Len(iImages) = 0
           THEN /\ iError' = <<"Please add at least one image.">>
                /\ UNCHANGED <<iIsProcessing, iRun>>
       ELSE /\ iIsProcessing' = TRUE
            /\ iError' = NoError
            /\ iRun' = iRun \cup {[items |-> iImages, pageSize |-> iPageSize,
                                   orientation |-> iOrientation]}
    /\ UNCHANGED <<iImages, iDragIndex, iOrientation, iPageSize, iDownloads, iCrashed>>
    /\ ImagesFrame

\* createPdfFromImages settles inside a run of handleGenerate
ImagesRunSettles(run) ==
    /\ ~iCrashed
    /\ run \in iRun
    /\ iRun' = iRun \ {run}
    /\ LET data == createPdfFromImages(run.items, run.pageSize, run.orientation)
       IN  IF data.threw
               THEN iError' = data.message /\ iDownloads' = iDownloads
           ELSE /\ iDownloads' = Append(iDownloads, [filename |-> "images-to-pdf.pdf",
                                                     data |-> data.value])
                /\ iError' = iError
    /\ iIsProcessing' = FALSE
    /\ UNCHANGED <<iImages, iDragIndex, iOrientation, iPageSize, iCrashed, iEvents>>
    /\ ImagesFrame

NextImages ==
    \/ \E files \in ImageSelections : ImagesHandleFilesSelected(files)
    \/ \E index \in 0..(Len(iImages) - 1) : ImagesDragStart(index)
    \/ \E index \in 0..(Len(iImages) - 1) : ImagesDrop(index)
    \/ \E index \in 0..(Len(iImages) - 1) : ImagesRemove(index)
    \/ \E orientation \in {"portrait", "landscape"}, pageSize \in {"a4", "letter"} :
           ImagesSetLayout(orientation, pageSize)
    \/ handleGenerate
    \/ \E run \in iRun : ImagesRunSettles(run)

SpecImages == InitImages /\ [][NextImages]_vars

\* every file of the items has bytes of the format its type announces
AllDecodable(items) == \A k \in 1..Len(items) : ~embedImage(items[k].file).threw

\* C14: only files of type image/jpeg or image/png enter the list; "Generate
\* PDF" takes the list as it stands at the click, and the document it
\* downloads, when every image decodes, has exactly one page per listed
\* image, page k showing the k-th listed image.
C14_OnePagePerImageInOrder ==
    [][/\ \A k \in 1..Len(iImages') :
              iImages'[k] # UndefinedImage =>
                  iImages'[k].file.type \in {"image/jpeg", "image/png"}
       /\ (handleGenerate /\ iIsProcessing') =>
              \E run \in iRun' \ iRun : run.items = iImages
       /\ \A run \in iRun :
              (ImagesRunSettles(run) /\ AllDecodable(run.items)) =>
                  /\ Len(iDownloads') = Len(iDownloads) + 1
                  /\ LET out == iDownloads'[Len(iDownloads')].data
                     IN  /\ Len(out) = Len(run.items)
                         /\ \A k \in 1..Len(out) :
                                out[k].image = run.items[k].file.name
      ]_vars

\* b.png and c.jpg were selected, c.jpg dragged above b.png, and the PDF
\* generated
C14_Witness ==
    /\ Len(iImages) = 2
    /\ iImages[1].file.name = "c.jpg"
    /\ iImages[2].file.name = "b.png"
    /\ Len(iDownloads) = 1
    /\ [k \in 1..Len(iDownloads[1].data) |-> iDownloads[1].data[k].image]
           = <<"c.jpg", "b.png">>

(***************************************************************************)
(* Specification SpecOut: "Download All Pages" of the PDF to images page   *)
(***************************************************************************)

\* user events in one run of the PDF to images page
MaxOutEvents == 3

\* pages of the larger document
MaxOutPages == 2

\* file E has a second page that pdf.js cannot render
OutFiles == {PdfFile("D", MaxOutPages), PdfFile("E", 2), BadFile("X")}

\* page.render(renderContext).promise rejects
RenderFails(pdfDoc, pageNum) == pdfDoc.name = "E" /\ pageNum = 2

\* a run of downloadAllPages: pdfDoc, file, pageCount and imageFormat are
\* those of the render in which the button was clicked; pageNum and stage
\* are the position in the loop; done and skipped record what the loop did
OutRun(pdfDoc, file, pageCount, imageFormat) ==
    [pdfDoc |-> pdfDoc, file |-> file, pageCount |-> pageCount,
     imageFormat |-> imageFormat, pageNum |-> 1, stage |-> "render",
     done |-> <<>>, skipped |-> {}]

OutFrame ==
    UNCHANGED <<rangeVars, helperVars, splitVars, mergeVars, managerVars, rotateVars,
                numbersVars, imagesVars, textVars, annotateVars, editVars, networkVars, extractTextVars>>

InitOut ==
    /\ IdleRanges
    /\ IdleHelpers
    /\ MountedSplit
    /\ MountedMerge
    /\ MountedManager
    /\ IdleRotate
    /\ MountedNumbers
    /\ MountedImages
    /\ MountedOut
    /\ IdleText
    /\ MountedAnnotate
    /\ MountedEdit
    /\ IdleNetwork
    /\ MountedExtractText

\* onFilesSelected: setFile(files[0]), setError(null); the effect on [file]
\* starts a run of loadPdf
OutSelectFile(f) ==
    /\ dEvents < MaxOutEvents
    /\ dEvents' = dEvents + 1
    /\ dFile' = f
    /\ dError' = NoError
    /\ dLoads' = dLoads \cup {[id |-> dEvents, file |-> f]}
    /\ UNCHANGED <<dPageCount, dImageFormat, dIsProcessing, dPdfDoc, dRun, dDownloads,
                   dFinished>>
    /\ OutFrame

\* a run of loadPdf gets its pdf.js document or the rejection
OutLoadSettles(task) ==
    /\ task \in dLoads
    /\ dLoads' = dLoads \ {task}
    /\ LET pdf == getDocument(task.file)
       IN  IF pdf.threw
               THEN dError' = pdf.message /\ UNCHANGED <<dPdfDoc, dPageCount>>
           ELSE /\ dPdfDoc' = pdf.value
                /\ dPageCount' = Len(pdf.value.rots)
                /\ dError' = dError
    /\ UNCHANGED <<dFile, dImageFormat, dIsProcessing, dRun, dDownloads, dFinished,
                   dEvents>>
    /\ OutFrame

\* onChange of the image format select (shown once a document is loaded)
OutSetImageFormat(format) ==
    /\ dEvents < MaxOutEvents
    /\ dPdfDoc # NullFile /\ dPageCount # NullCount
    /\ dEvents' = dEvents + 1
    /\ dImageFormat' = format
    /\ UNCHANGED <<dFile, dPageCount, dIsProcessing, dError, dPdfDoc, dLoads, dRun,
                   dDownloads, dFinished>>
    /\ OutFrame

\* downloadAllPages up to its first await ("Download All Pages", shown once a
\* document is loaded, disabled while isProcessing)
downloadAllPages ==
    /\ dEvents < MaxOutEvents
    /\ dPdfDoc # NullFile /\ dPageCount # NullCount
    /\ ~dIsProcessing
    /\ dEvents' = dEvents + 1
    /\ IF dPdfDoc = NullFile \/ dFile = NullFile
           THEN UNCHANGED <<dIsProcessing, dError, dRun>>
       ELSE /\ dIsProcessing' = TRUE
            /\ dError' = NoError
            /\ dRun' = {OutRun(dPdfDoc, dFile, dPageCount, dImageFormat)}
    /\ UNCHANGED <<dFile, dPageCount, dImageFormat, dPdfDoc, dLoads, dDownloads,
                   dFinished>>
    /\ OutFrame

\* the run leaves the loop, by its end or through catch, and runs finally
OutRunEnds(run, failed) ==
    /\ dRun' = {}
    /\ dFinished' = Append(dFinished, [run EXCEPT !.stage = IF failed THEN "failed"
                                                            ELSE "ended"])
    /\ dIsProcessing' = FALSE

\* the loop leaving out the last page (pageNum < pageCount)
OutRunNextPageButLast(run) ==
    IF run.pageNum + 1 < run.pageCount
        THEN /\ dRun' = {[run EXCEPT !.pageNum = run.pageNum + 1, !.stage = "render"]}
             /\ UNCHANGED <<dFinished, dIsProcessing>>
    ELSE OutRunEnds(run, FALSE)

\* the loop goes on to pageNum + 1 or, past pageCount, ends
OutRunNextPage(run) ==
    IF run.pageNum + 1 <= run.pageCount
        THEN /\ dRun' = {[run EXCEPT !.pageNum = run.pageNum + 1, !.stage = "render"]}
             /\ UNCHANGED <<dFinished, dIsProcessing>>
    ELSE OutRunEnds(run, FALSE)

\* getPage, canvas.getContext("2d") and page.render of the page at pageNum:
\* without a context the loop continues with the next page; a render that
\* rejects is caught and ends the run with the error
OutRunRenders(run, hasContext) ==
    /\ run \in dRun
    /\ run.stage = "render"
    /\ IF ~hasContext
           THEN /\ OutRunNextPage([run EXCEPT !.skipped = run.skipped \cup {run.pageNum}])
                /\ dError' = dError
       ELSE IF getPage(run.pdfDoc, run.pageNum).threw \/ RenderFails(run.pdfDoc, run.pageNum)
           THEN /\ dError' = <<"Failed to convert PDF to images.">>
                /\ OutRunEnds(run, TRUE)
       ELSE /\ dRun' = {[run EXCEPT !.stage = "save"]}
            /\ UNCHANGED <<dError, dFinished, dIsProcessing>>
    /\ UNCHANGED <<dFile, dPageCount, dImageFormat, dPdfDoc, dLoads, dDownloads, dEvents>>
    /\ OutFrame

\* fetch(imageData) and response.blob() settle and a.click() downloads the
\* image; before the last page the run then waits 100 ms
OutRunSaves(run) ==
    /\ run \in dRun
    /\ run.stage = "save"
    /\ dDownloads' = Append(dDownloads,
                         [name |-> <<run.file.name, run.pageNum, run.imageFormat>>,
                          page |-> [doc |-> run.pdfDoc.name,
                                    idx |-> getPage(run.pdfDoc, run.pageNum).value]])
    /\ LET saved == [run EXCEPT !.done = Append(run.done, run.pageNum)]
       IN  IF run.pageNum < run.pageCount
               THEN /\ dRun' = {[saved EXCEPT !.stage = "delay"]}
                    /\ UNCHANGED <<dFinished, dIsProcessing>>
           ELSE OutRunNextPage(saved)
    /\ UNCHANGED <<dFile, dPageCount, dImageFormat, dError, dPdfDoc, dLoads, dEvents>>
    /\ OutFrame

\* the 100 ms timer fires
OutRunDelayEnds(run) ==
    /\ run \in dRun
    /\ run.stage = "delay"
    /\ OutRunNextPage(run)
    /\ UNCHANGED <<dFile, dPageCount, dImageFormat, dError, dPdfDoc, dLoads, dDownloads,
                   dEvents>>
    /\ OutFrame

\* a step of the run of downloadAllPages
OutRunSteps ==
    \E run \in dRun :
        \/ \E hasContext \in BOOLEAN : OutRunRenders(run, hasContext)
        \/ OutRunSaves(run)
        \/ OutRunDelayEnds(run)

NextOut ==
    \/ \E f \in OutFiles : OutSelectFile(f)
    \/ \E task \in dLoads : OutLoadSettles(task)
    \/ \E format \in {"png", "jpg"} : OutSetImageFormat(format)
    \/ downloadAllPages
    \/ \E run \in dRun, hasContext \in BOOLEAN : OutRunRenders(run, hasContext)
    \/ \E run \in dRun : OutRunSaves(run)
    \/ \E run \in dRun : OutRunDelayEnds(run)

\* every awaited promise of a run settles and its timer fires
SpecOut == InitOut /\ [][NextOut]_vars /\ WF_vars(OutRunSteps)

\* the elements of a sequence
Range(seq) == {seq[k] : k \in 1..Len(seq)}

IsAscending(seq) == \A j, k \in 1..Len(seq) : j < k => seq[j] < seq[k]

\* the pages a run has dealt with: those before pageNum, and pageNum itself
\* once it is downloaded or when the run ended past it
OutHandled(run) ==
    IF run.stage \in {"delay", "ended"} THEN 1..run.pageNum ELSE 1..(run.pageNum - 1)

\* the downloads of a run, as <<document, page number, file name, format>>
OutDone(run) ==
    [k \in 1..Len(run.done) |->
        <<run.pdfDoc.name, run.done[k], run.file.name, run.imageFormat>>]

\* the downloads of the runs in a sequence, run after run
RECURSIVE OutAllDone(_)
OutAllDone(runs) ==
    IF runs = <<>> THEN <<>> ELSE OutDone(Head(runs)) \o OutAllDone(Tail(runs))

\* the runs that ended followed by the one under way
OutRuns == dFinished \o (IF dRun = {} THEN <<>> ELSE <<CHOOSE run \in dRun : TRUE>>)

\* what holds of a run of downloadAllPages at every moment: it downloads in
\* ascending page order, each page after the one before is dealt with, and
\* has downloaded exactly the pages dealt with that had a canvas context
OutRunInOrder(run) ==
    /\ run.pageCount = Len(run.pdfDoc.rots)
    /\ IsAscending(run.done)
    /\ Range(run.done) \cup run.skipped = OutHandled(run)
    /\ Range(run.done) \cap run.skipped = {}
    /\ run.stage = "ended" => run.pageNum = run.pageCount
    /\ (run.stage = "ended" /\ run.skipped = {}) =>
           run.done = [k \in 1..run.pageCount |-> k]

MaxTextItems == 3

\* viewport.height of every page
ViewportHeight == 100

\* the strings of the text items, one per position in content.items
ItemStrings == <<"a", "b", "c", "d", "e">>

\* transform[4] and transform[5] of a text item: two columns more than 10
\* apart; baselines 4 apart at the top of the page and one near the bottom
ItemXs == {0, 30}

ItemYs == {90, 86, 82, 10}

\* the content.items of a page that pass the filter (a non-blank str and a
\* transform of six entries), n of them
ItemLists(n) ==
    {[k \in 1..n |-> [str |-> ItemStrings[k], x |-> c[k][1], y |-> c[k][2]]] :
        c \in [1..n -> ItemXs \X ItemYs]}

\* documents of one page, and of two pages with at most one item on the second
TextDocuments ==
    LET first  == UNION {ItemLists(n) : n \in 0..MaxTextItems}
        second == ItemLists(0) \cup ItemLists(1)
    IN  {<<f>> : f \in first} \cup {<<f, g>> : f \in first, g \in second}

abs(n) == IF n < 0 THEN 0 - n ELSE n

\* the loop over content.items: y becomes the distance from the top edge
textItemsOf(items, height) ==
    [k \in 1..Len(items) |->
        [text |-> items[k].str, x |-> items[k].x, y |-> height - items[k].y]]

\* the comparator handed to textItems.sort
compareItems(a, b) ==
    IF abs(a.y - b.y) < 5 THEN a.x - b.x ELSE b.y - a.y

\* whether the comparator orders these items consistently (a strict weak
\* order), which is what Array.prototype.sort needs for a defined result
ConsistentOn(items) ==
    \A i, j, k \in 1..Len(items) :
        /\ (compareItems(items[i], items[j]) < 0 /\ compareItems(items[j], items[k]) < 0)
               => compareItems(items[i], items[k]) < 0
        /\ (compareItems(items[i], items[j]) = 0 /\ compareItems(items[j], items[k]) = 0)
               => compareItems(items[i], items[k]) = 0
        /\ (compareItems(items[i], items[j]) = 0 /\ compareItems(items[j], items[k]) < 0)
               => compareItems(items[i], items[k]) < 0
        /\ (compareItems(items[i], items[j]) < 0 /\ compareItems(items[j], items[k]) = 0)
               => compareItems(items[i], items[k]) < 0

ItemOrders(n) == {p \in [1..n -> 1..n] : \A i, j \in 1..n : i # j => p[i] # p[j]}

\* the orders textItems.sort can leave the items in: the stable sorted order
\* under a consistent comparator, an order the engine is free to choose
\* otherwise
sortOutcomes(items) ==
    LET n == Len(items)
    IN  {[k \in 1..n |-> items[p[k]]] :
            p \in {q \in ItemOrders(n) :
                      ConsistentOn(items) =>
                          \A i, j \in 1..n :
                              i < j =>
                                  LET c == compareItems(items[q[i]], items[q[j]])
                                  IN  c < 0 \/ (c = 0 /\ q[i] < q[j])}}

\* lineText.trim(): a line is its item texts and " " in order
trimLine(line) == trim(line)

\* textItems.find(t => Math.abs(t.y - item.y) < 5 && t.x < item.x)?.x || item.x
foundX(textItems, item) ==
    LET hits == {k \in 1..Len(textItems) :
                    abs(textItems[k].y - item.y) < 5 /\ textItems[k].x < item.x}
    IN  IF hits = {} THEN item.x
        ELSE LET first == textItems[CHOOSE k \in hits : \A j \in hits : k <= j].x
             IN  IF first = 0 THEN item.x ELSE first

\* the loop that builds pageText: rest are the items still to come, lastY,
\* lineText and lines the variables of the loop (lines: the lines already
\* added to pageText)
RECURSIVE buildLines(_, _, _, _, _)
buildLines(rest, textItems, lastY, lineText, lines) ==
    IF rest = <<>>
        THEN IF lineText # <<>> THEN Append(lines, trimLine(lineText)) ELSE lines
    ELSE LET item      == Head(rest)
             isNewLine == lastY = 0 - 1 \/ abs(item.y - lastY) > 5
             flush     == isNewLine /\ lineText # <<>>
             lines1    == IF flush THEN Append(lines, trimLine(lineText)) ELSE lines
             line1     == IF flush THEN <<>> ELSE lineText
             line2     == IF line1 # <<>> /\ item.x - foundX(textItems, item) > 10
                              THEN Append(line1, " ")
                          ELSE line1
         IN  buildLines(Tail(rest), textItems, item.y, Append(line2, item.text), lines1)

\* the text of one page for one outcome of the sort: the number of its
\* "--- Page N ---" header and its lines
pageText(pageNum, sorted) ==
    [pageNum |-> pageNum, lines |-> buildLines(sorted, sorted, 0 - 1, <<>>, <<>>)]

\* what extractTextFromPdf can return for the pages: page after page, each
\* with one outcome of its sort
RECURSIVE textParts(_, _)
textParts(pages, pageNum) ==
    IF pages = <<>> THEN {<<>>}
    ELSE {<<pageText(pageNum, sorted)>> \o rest :
             sorted \in sortOutcomes(textItemsOf(Head(pages), ViewportHeight)),
             rest \in textParts(Tail(pages), pageNum + 1)}

extractTextFromPdf(pages) == textParts(pages, 1)

TextFrame ==
    UNCHANGED <<rangeVars, helperVars, splitVars, mergeVars, managerVars, rotateVars,
                numbersVars, imagesVars, outVars, annotateVars, editVars, networkVars, extractTextVars>>

InitText ==
    /\ IdleRanges
    /\ IdleHelpers
    /\ MountedSplit
    /\ MountedMerge
    /\ MountedManager
    /\ IdleRotate
    /\ MountedNumbers
    /\ MountedImages
    /\ MountedOut
    /\ xPages \in TextDocuments
    /\ xText = <<>>
    /\ xCalled = FALSE
    /\ MountedAnnotate
    /\ MountedEdit
    /\ IdleNetwork
    /\ MountedExtractText

CallExtractTextFromPdf ==
    /\ ~xCalled
    /\ xCalled' = TRUE
    /\ xText' \in extractTextFromPdf(xPages)
    /\ xPages' = xPages
    /\ TextFrame

NextText == CallExtractTextFromPdf

SpecText == InitText /\ [][NextText]_vars

\* where the string of an item stands in the lines of a page: <<line, place>>
PlaceOf(lines, str) ==
    CHOOSE at \in {<<l, k>> : l \in 1..Len(lines), k \in 1..MaxTextItems * 2} :
        at[2] <= Len(lines[at[1]]) /\ lines[at[1]][at[2]] = str

Printed(lines, str) ==
    \E l \in 1..Len(lines) : \E k \in 1..Len(lines[l]) : lines[l][k] = str

\* C16 as stated: the pages come in ascending page number under their
\* headers; on a page every item is printed, two items whose vertical
\* positions differ by less than 5 stand on the same line with the one at
\* the smaller x first, and of two items 5 or more apart the one higher on
\* the page stands on an earlier line.
C16_ReadingOrder ==
    xCalled =>
        /\ Len(xText) = Len(xPages)
        /\ \A n \in 1..Len(xText) :
               /\ xText[n].pageNum = n
               /\ \A i, j \in 1..Len(xPages[n]) :
                      LET a     == xPages[n][i]
                          b     == xPages[n][j]
                          lines == xText[n].lines
                      IN  /\ Printed(lines, a.str)
                          /\ (abs(a.y - b.y) < 5 /\ a.x < b.x) =>
                                 /\ PlaceOf(lines, a.str)[1] = PlaceOf(lines, b.str)[1]
                                 /\ PlaceOf(lines, a.str)[2] < PlaceOf(lines, b.str)[2]
                          /\ a.y - b.y >= 5 =>
                                 PlaceOf(lines, a.str)[1] < PlaceOf(lines, b.str)[1]

(***************************************************************************)
(* Specification SpecAnnotate: the text annotations page                   *)
(***************************************************************************)

\* most user events in a behaviour
MaxAnnotateEvents == 4

\* page.getSize() and the scale 1 viewport of every page, in document units
PageWidth == 240

PageHeight == 480

\* the files offered: two pages, and bytes that are not a PDF
AnnotateFiles == {PdfFile("T", 2), BadFile("X")}

\* e.clientX - rect.left and e.clientY - rect.top of the clicks tried
ClickXs == {30, 60}

ClickYs == {60}

\* canvas.width / rect.width: 1, or 2 where maxWidth: 100% halves the canvas
CanvasShrinks == {1, 2}

\* canvas.width and canvas.height as renderPage sets them: the viewport of
\* the page at the zoom
canvasWidth(scale) == (PageWidth * scale) \div 4

canvasHeight(scale) == (PageHeight * scale) \div 4

\* the annotation handleCanvasClick finds under the click, 0 for none
existingAnnotation(annotations, page, pdfX, pdfY) ==
    LET hits == {k \in 1..Len(annotations) :
                    /\ annotations[k].pageNumber = page
                    /\ abs(annotations[k].x - pdfX) < 50
                    /\ abs(annotations[k].y - pdfY) < 50}
    IN  IF hits = {} THEN 0 ELSE CHOOSE k \in hits : \A j \in hits : k <= j

\* the order of grouped.entries(): page numbers by first appearance
RECURSIVE groupedPages(_)
groupedPages(annotations) ==
    IF annotations = <<>> THEN <<>>
    ELSE LET front == groupedPages(SubSeq(annotations, 1, Len(annotations) - 1))
             last  == annotations[Len(annotations)].pageNumber
         IN  IF \E k \in 1..Len(front) : front[k] = last THEN front
             ELSE Append(front, last)

\* the page.drawText calls for one page: x as stored, y from the top edge
RECURSIVE drawOnPage(_, _)
drawOnPage(annotations, pageNumber) ==
    IF annotations = <<>> THEN <<>>
    ELSE LET ann == Head(annotations)
             rest == drawOnPage(Tail(annotations), pageNumber)
         IN  IF ann.pageNumber = pageNumber
                 THEN <<[pageNumber |-> pageNumber, text |-> ann.text,
                         x |-> ann.x, y |-> PageHeight - ann.y]>> \o rest
             ELSE rest

RECURSIVE drawAll(_, _)
drawAll(annotations, pageNumbers) ==
    IF pageNumbers = <<>> THEN <<>>
    ELSE drawOnPage(annotations, Head(pageNumbers))
             \o drawAll(annotations, Tail(pageNumbers))

\* applyAnnotations: the texts drawn into the saved document
applyAnnotations(file, annotations) ==
    IF ~file.valid THEN Rejected(<<"Failed to parse PDF document">>)
    ELSE Fulfilled(drawAll(annotations, groupedPages(annotations)))

AnnotateFrame ==
    UNCHANGED <<rangeVars, helperVars, splitVars, mergeVars, managerVars, rotateVars,
                numbersVars, imagesVars, outVars, textVars, editVars, networkVars, extractTextVars>>

InitAnnotate ==
    /\ IdleRanges
    /\ IdleHelpers
    /\ MountedSplit
    /\ MountedMerge
    /\ MountedManager
    /\ IdleRotate
    /\ MountedNumbers
    /\ MountedImages
    /\ MountedOut
    /\ IdleText
    /\ MountedAnnotate
    /\ MountedEdit
    /\ IdleNetwork
    /\ MountedExtractText

\* onFilesSelected, and the effect on [file] starting loadPdf
AnnotateSelectFile ==
    \E f \in AnnotateFiles :
        /\ aEvents < MaxAnnotateEvents
        /\ aEvents' = aEvents + 1
        /\ aFile' = f
        /\ aAnnotations' = <<>>
        /\ aPlaced' = <<>>
        /\ aError' = NoError
        /\ aLoads' = aLoads \cup {f}
        /\ UNCHANGED <<aPdfDoc, aCurrentPage, aPageCount, aScale, aEditingId,
                       aIsProcessing, aRun, aDownloads>>
        /\ UNCHANGED <<aEditStart, aKeys>>
        /\ AnnotateFrame

\* loadPdf after getDocument settles
AnnotateLoadSettles ==
    \E f \in aLoads :
        /\ aLoads' = aLoads \ {f}
        /\ LET loaded == getDocument(f)
           IN  IF loaded.threw
                   THEN /\ aError' = loaded.message
                        /\ UNCHANGED <<aPdfDoc, aPageCount, aCurrentPage, aAnnotations,
                                       aPlaced>>
               ELSE /\ aPdfDoc' = loaded.value
                    /\ aPageCount' = Len(loaded.value.rots)
                    /\ aCurrentPage' = 1
                    /\ aAnnotations' = <<>>
                    /\ aPlaced' = <<>>
                    /\ aError' = aError
        /\ UNCHANGED <<aFile, aScale, aEditingId, aIsProcessing, aRun, aDownloads,
                       aEvents>>
        /\ UNCHANGED <<aEditStart, aKeys>>
        /\ AnnotateFrame

\* the zoom buttons: setScale((s) => Math.max(0.5, s - 0.25)) and
\* setScale((s) => Math.min(3, s + 0.25)), shown once a document is loaded
AnnotateZoom ==
    \E step \in {0 - 1, 1} :
        /\ aEvents < MaxAnnotateEvents
        /\ aFile # NullFile /\ aPdfDoc # NullFile
        /\ aEvents' = aEvents + 1
        /\ aScale' = IF step < 0 THEN (IF aScale - 1 < 2 THEN 2 ELSE aScale - 1)
                     ELSE (IF aScale + 1 > 12 THEN 12 ELSE aScale + 1)
        /\ UNCHANGED <<aFile, aPdfDoc, aCurrentPage, aPageCount, aAnnotations,
                       aEditingId, aIsProcessing, aError, aLoads, aRun, aDownloads,
                       aPlaced>>
        /\ UNCHANGED <<aEditStart, aKeys>>
        /\ AnnotateFrame

\* the Prev and Next buttons
AnnotateTurnPage ==
    \E step \in {0 - 1, 1} :
        /\ aEvents < MaxAnnotateEvents
        /\ aFile # NullFile /\ aPdfDoc # NullFile
        /\ IF step < 0 THEN aCurrentPage # 1 ELSE aCurrentPage # aPageCount
        /\ aEvents' = aEvents + 1
        /\ aCurrentPage' = IF step < 0 THEN (IF aCurrentPage - 1 < 1 THEN 1 ELSE aCurrentPage - 1)
                           ELSE (IF aCurrentPage + 1 > aPageCount THEN aPageCount
                                 ELSE aCurrentPage + 1)
        /\ UNCHANGED <<aFile, aPdfDoc, aPageCount, aAnnotations, aScale, aEditingId,
                       aIsProcessing, aError, aLoads, aRun, aDownloads, aPlaced>>
        /\ UNCHANGED <<aEditStart, aKeys>>
        /\ AnnotateFrame

\* the default text of a new annotation, the settings field left empty
defaultText == <<"A", "n", "n", "o", "t", "a", "t", "i", "o", "n">>

\* handleCanvasClick for a click at (clickX, clickY) of the canvas as laid
\* out, the canvas holding the current page at the current zoom
handleCanvasClick ==
    \E clickX \in ClickXs, clickY \in ClickYs, shrink \in CanvasShrinks :
        LET rectWidth  == canvasWidth(aScale) \div shrink
            rectHeight == canvasHeight(aScale) \div shrink
            scaleX     == canvasWidth(aScale) \div rectWidth
            scaleY     == canvasHeight(aScale) \div rectHeight
            pdfX       == clickX * scaleX
            pdfY       == clickY * scaleY
            existing   == existingAnnotation(aAnnotations, aCurrentPage, pdfX, pdfY)
            ann        == [id |-> aEvents + 1, pageNumber |-> aCurrentPage,
                           text |-> defaultText, x |-> pdfX, y |-> pdfY]
        IN  /\ aEvents < MaxAnnotateEvents
            /\ aFile # NullFile /\ aPdfDoc # NullFile
            /\ clickX < rectWidth /\ clickY < rectHeight
            /\ aEvents' = aEvents + 1
            /\ IF existing # 0
                   THEN /\ aEditingId' = aAnnotations[existing].id
                        /\ UNCHANGED <<aAnnotations, aPlaced>>
               ELSE /\ aAnnotations' = Append(aAnnotations, ann)
                    /\ aPlaced' = Append(aPlaced, [pageNumber |-> aCurrentPage,
                                                   cx |-> pdfX, cy |-> pdfY,
                                                   scale |-> aScale])
                    /\ aEditingId' = ann.id
            /\ UNCHANGED <<aFile, aPdfDoc, aCurrentPage, aPageCount, aScale,
                           aIsProcessing, aError, aLoads, aRun, aDownloads>>
            /\ aEditStart' = aAnnotations
            /\ UNCHANGED aKeys
            /\ AnnotateFrame

\* the values typed into the input of an annotation
AnnotationTexts == {<<"N", "o", "t", "e">>, <<" ">>}

\* whether the input of annotation id is rendered
InputShown(id) ==
    /\ aFile # NullFile /\ aPdfDoc # NullFile
    /\ \E k \in 1..Len(aAnnotations) : aAnnotations[k].id = id

\* the places of a list whose annotation does not have the id
keptPlaces(annotations, id) ==
    {k \in 1..Len(annotations) : annotations[k].id # id}

\* prev.filter((a) => a.id !== id), applied to any list that runs parallel
\* to the annotations
RECURSIVE filterOut(_, _, _)
filterOut(list, annotations, id) ==
    IF annotations = <<>> THEN <<>>
    ELSE LET n     == Len(annotations)
             front == filterOut(SubSeq(list, 1, n - 1), SubSeq(annotations, 1, n - 1), id)
         IN  IF n \in keptPlaces(annotations, id) THEN Append(front, list[n]) ELSE front

\* whether the updater of handleAnnotationBlur removes annotation id
blurRemoves(annotations, id) ==
    \E k \in 1..Len(annotations) :
        /\ annotations[k].id = id
        /\ \A j \in 1..(k - 1) : annotations[j].id # id
        /\ trim(annotations[k].text) = <<>>

\* handleAnnotationChange(id, value) for the input that has the focus
handleAnnotationChange ==
    \E value \in AnnotationTexts :
        /\ aEvents < MaxAnnotateEvents
        /\ InputShown(aEditingId)
        /\ aEvents' = aEvents + 1
        /\ aAnnotations' = [k \in 1..Len(aAnnotations) |->
                               IF aAnnotations[k].id = aEditingId
                                   THEN [aAnnotations[k] EXCEPT !.text = value]
                               ELSE aAnnotations[k]]
        /\ UNCHANGED <<aFile, aPdfDoc, aCurrentPage, aPageCount, aScale, aEditingId,
                       aIsProcessing, aError, aLoads, aRun, aDownloads, aPlaced,
                       aEditStart, aKeys>>
        /\ AnnotateFrame

\* handleAnnotationBlur(id) when the input that has the focus loses it
handleAnnotationBlur ==
    /\ aEvents < MaxAnnotateEvents
    /\ InputShown(aEditingId)
    /\ aEvents' = aEvents + 1
    /\ IF blurRemoves(aAnnotations, aEditingId)
           THEN /\ aAnnotations' = filterOut(aAnnotations, aAnnotations, aEditingId)
                /\ aPlaced' = filterOut(aPlaced, aAnnotations, aEditingId)
       ELSE UNCHANGED <<aAnnotations, aPlaced>>
    /\ aEditingId' = NullIndex
    /\ UNCHANGED <<aFile, aPdfDoc, aCurrentPage, aPageCount, aScale, aIsProcessing,
                   aError, aLoads, aRun, aDownloads, aEditStart, aKeys>>
    /\ AnnotateFrame

\* handleAnnotationKeyDown(id, e) for Enter without shift and for Escape in
\* the input that has the focus
handleAnnotationKeyDown ==
    \E key \in {"Enter", "Escape"} :
        LET ann == aAnnotations[CHOOSE k \in 1..Len(aAnnotations) :
                                    aAnnotations[k].id = aEditingId]
        IN  /\ aEvents < MaxAnnotateEvents
            /\ InputShown(aEditingId)
            /\ aEvents' = aEvents + 1
            /\ aKeys' = Append(aKeys, key)
            /\ IF key = "Escape" /\ ann.text = defaultText
                   THEN /\ aAnnotations' = filterOut(aAnnotations, aAnnotations, aEditingId)
                        /\ aPlaced' = filterOut(aPlaced, aAnnotations, aEditingId)
                        /\ UNCHANGED aEditingId
               ELSE /\ IF blurRemoves(aAnnotations, aEditingId)
                           THEN /\ aAnnotations' =
                                       filterOut(aAnnotations, aAnnotations, aEditingId)
                                /\ aPlaced' = filterOut(aPlaced, aAnnotations, aEditingId)
                       ELSE UNCHANGED <<aAnnotations, aPlaced>>
                    /\ aEditingId' = NullIndex
            /\ UNCHANGED <<aFile, aPdfDoc, aCurrentPage, aPageCount, aScale,
                           aIsProcessing, aError, aLoads, aRun, aDownloads, aEditStart>>
            /\ AnnotateFrame

\* handleApply up to the await; the button is disabled while processing,
\* without a file and without an annotation
AnnotateHandleApply ==
    /\ aEvents < MaxAnnotateEvents
    /\ ~aIsProcessing /\ aFile # NullFile /\ aAnnotations # <<>>
    /\ aEvents' = aEvents + 1
    /\ aIsProcessing' = TRUE
    /\ aError' = NoError
    /\ aRun' = aRun \cup {[file |-> aFile, annotations |-> aAnnotations]}
    /\ UNCHANGED <<aFile, aPdfDoc, aCurrentPage, aPageCount, aAnnotations, aScale,
                   aEditingId, aLoads, aDownloads, aPlaced>>
    /\ UNCHANGED <<aEditStart, aKeys>>
    /\ AnnotateFrame

\* handleApply after applyAnnotations settles
AnnotateRunSettles ==
    \E run \in aRun :
        /\ aRun' = aRun \ {run}
        /\ LET data == applyAnnotations(run.file, run.annotations)
           IN  IF data.threw
                   THEN /\ aError' = data.message
                        /\ aDownloads' = aDownloads
               ELSE /\ aDownloads' = Append(aDownloads, data.value)
                    /\ aError' = aError
        /\ aIsProcessing' = FALSE
        /\ UNCHANGED <<aFile, aPdfDoc, aCurrentPage, aPageCount, aAnnotations, aScale,
                       aEditingId, aLoads, aPlaced, aEvents>>
        /\ UNCHANGED <<aEditStart, aKeys>>
        /\ AnnotateFrame

NextAnnotate ==
    \/ AnnotateSelectFile
    \/ AnnotateLoadSettles
    \/ AnnotateZoom
    \/ AnnotateTurnPage
    \/ handleCanvasClick
    \/ handleAnnotationChange
    \/ handleAnnotationBlur
    \/ handleAnnotationKeyDown
    \/ AnnotateHandleApply
    \/ AnnotateRunSettles

SpecAnnotate == InitAnnotate /\ [][NextAnnotate]_vars

\* a drawn text stands at the spot of the page that was clicked
DrawnAtClick(d, p) ==
    /\ d.pageNumber = p.pageNumber
    /\ d.x * p.scale = p.cx * 4
    /\ (PageHeight - d.y) * p.scale = p.cy * 4

\* C17 as stated: in every generated document each text is drawn at
\* x = cx / s, y = pageHeight - cy / s for the canvas pixel (cx, cy) and zoom s
\* of a click that placed an annotation on that page, and every such click
\* has its text drawn there.
C17_DrawnWhereClicked ==
    [][\A run \in aRun :
          (aRun' = aRun \ {run} /\ Len(aDownloads') = Len(aDownloads) + 1) =>
              LET drawn == aDownloads'[Len(aDownloads')]
              IN  /\ \A k \in 1..Len(drawn) :
                         \E j \in 1..Len(run.annotations) : DrawnAtClick(drawn[k], aPlaced[j])
                  /\ \A j \in 1..Len(run.annotations) :
                         \E k \in 1..Len(drawn) : DrawnAtClick(drawn[k], aPlaced[j])]_vars

(***************************************************************************)
(* Specification SpecEdit: clicks on the canvas of the edit PDF page       *)
(***************************************************************************)

\* most user events in a behaviour
MaxEditEvents == 4

\* the files offered: two pages and one page of PageWidth by PageHeight, and
\* bytes that are not a PDF
EditFiles == {PdfFile("U", 2), PdfFile("S", 1), BadFile("X")}

\* page.getTextContent().items of a page of a file: "Hello" in 12 point on
\* page 1, its origin 200 from the left and 180 above the bottom edge, and
\* "Hi" on page 2
textContent(file, pageNum) ==
    IF pageNum = 1
        THEN <<[str |-> <<"H", "e", "l", "l", "o">>, transform |-> <<12, 0, 0, 12, 200, 180>>]>>
    ELSE <<[str |-> <<"H", "i">>, transform |-> <<12, 0, 0, 12, 100, 380>>]>>

\* transform[0] || 12 and the like
orDefault(n, d) == IF n = 0 THEN d ELSE n

\* the loop over content.items in loadPdf for one page
pageTextItems(items, pageNum) ==
    LET kept == SelectSeq(items, LAMBDA item : trim(item.str) # <<>>
                                                 /\ Len(item.transform) >= 6)
    IN  [k \in 1..Len(kept) |->
            LET fontSize == orDefault(kept[k].transform[1], 12)
            IN  [page     |-> pageNum,
                 text     |-> kept[k].str,
                 x        |-> orDefault(kept[k].transform[5], 0),
                 y        |-> PageHeight - orDefault(kept[k].transform[6], 0),
                 fontSize |-> fontSize,
                 width    |-> (Len(kept[k].str) * fontSize * 6) \div 10,
                 height   |-> fontSize]]

\* allTextItems: the items of pages pageNum and up, page after page
RECURSIVE allTextItems(_, _)
allTextItems(file, pageNum) ==
    IF pageNum > Len(file.rots) THEN <<>>
    ELSE pageTextItems(textContent(file, pageNum), pageNum)
             \o allTextItems(file, pageNum + 1)

\* originalText: null
NullText == <<"null">>

\* e.clientX - rect.left and e.clientY - rect.top of the clicks tried: the
\* origin of "Hello" as drawn at zoom 1 and at zoom 1.5, and a blank spot
EditClicks == {<<200, 300>>, <<300, 450>>, <<40, 40>>}

tolerance == 20

\* the text item handleCanvasClick finds under (pdfX, pdfY), 0 for none
clickedItem(textItems, page, pdfX, pdfY) ==
    LET hits == {k \in 1..Len(textItems) :
                    /\ textItems[k].page = page
                    /\ pdfX >= textItems[k].x - tolerance
                    /\ pdfX <= textItems[k].x + textItems[k].width + tolerance
                    /\ pdfY >= textItems[k].y - tolerance
                    /\ pdfY <= textItems[k].y + textItems[k].height + tolerance}
    IN  IF hits = {} THEN 0 ELSE CHOOSE k \in hits : \A j \in hits : k <= j

\* the edit already made of a text item, 0 for none
existingEdit(edits, page, item) ==
    LET hits == {k \in 1..Len(edits) :
                    /\ edits[k].pageNumber = page
                    /\ edits[k].originalText = item.text
                    /\ abs(edits[k].x - item.x) < 5
                    /\ abs(edits[k].y - item.y) < 5}
    IN  IF hits = {} THEN 0 ELSE CHOOSE k \in hits : \A j \in hits : k <= j

EditFrame ==
    UNCHANGED <<rangeVars, helperVars, splitVars, mergeVars, managerVars, rotateVars,
                numbersVars, imagesVars, outVars, textVars, annotateVars, networkVars, extractTextVars>>

InitEdit ==
    /\ IdleRanges
    /\ IdleHelpers
    /\ MountedSplit
    /\ MountedMerge
    /\ MountedManager
    /\ IdleRotate
    /\ MountedNumbers
    /\ MountedImages
    /\ MountedOut
    /\ IdleText
    /\ MountedAnnotate
    /\ MountedEdit
    /\ IdleNetwork
    /\ MountedExtractText

\* onFilesSelected, and the effect on [file] starting loadPdf
EditSelectFile ==
    \E f \in EditFiles :
        /\ eEvents < MaxEditEvents
        /\ eEvents' = eEvents + 1
        /\ eFile' = f
        /\ eEdits' = <<>>
        /\ eError' = NoError
        /\ eLoads' = eLoads \cup {f}
        /\ UNCHANGED <<ePdfDoc, eCurrentPage, ePageCount, eTextItems, eEditingId, eScale,
                       eClicks>>
        /\ EditFrame

\* loadPdf after getDocument and the text of every page have settled
EditLoadSettles ==
    \E f \in eLoads :
        /\ eLoads' = eLoads \ {f}
        /\ LET loaded == getDocument(f)
           IN  IF loaded.threw
                   THEN /\ eError' = loaded.message
                        /\ UNCHANGED <<ePdfDoc, ePageCount, eCurrentPage, eTextItems>>
               ELSE /\ ePdfDoc' = loaded.value
                    /\ ePageCount' = Len(loaded.value.rots)
                    /\ eCurrentPage' = 1
                    /\ eTextItems' = allTextItems(loaded.value, 1)
                    /\ eError' = eError
        /\ UNCHANGED <<eFile, eEdits, eEditingId, eScale, eClicks, eEvents>>
        /\ EditFrame

\* the zoom buttons, rendered whenever a file is selected
EditZoom ==
    \E step \in {0 - 1, 1} :
        /\ eEvents < MaxEditEvents
        /\ eFile # NullFile
        /\ eEvents' = eEvents + 1
        /\ eScale' = IF step < 0 THEN (IF eScale - 1 < 2 THEN 2 ELSE eScale - 1)
                     ELSE (IF eScale + 1 > 12 THEN 12 ELSE eScale + 1)
        /\ UNCHANGED <<eFile, ePdfDoc, eCurrentPage, ePageCount, eTextItems, eEdits,
                       eEditingId, eError, eLoads, eClicks>>
        /\ EditFrame

\* the Prev and Next buttons, rendered whenever a file is selected, each
\* disabled by its own comparison of currentPage
EditTurnPage ==
    \E step \in {0 - 1, 1} :
        /\ eEvents < MaxEditEvents
        /\ eFile # NullFile
        /\ IF step < 0 THEN eCurrentPage # 1 ELSE eCurrentPage # ePageCount
        /\ eEvents' = eEvents + 1
        /\ eCurrentPage' = IF step < 0 THEN (IF eCurrentPage - 1 < 1 THEN 1 ELSE eCurrentPage - 1)
                           ELSE (IF eCurrentPage + 1 > ePageCount THEN ePageCount
                                 ELSE eCurrentPage + 1)
        /\ UNCHANGED <<eFile, ePdfDoc, ePageCount, eTextItems, eEdits, eEditingId, eScale,
                       eError, eLoads, eClicks>>
        /\ EditFrame

\* handleCanvasClick of the edit PDF page for a click on the canvas, the
\* canvas holding the current page at the current zoom
EditHandleCanvasClick ==
    \E click \in EditClicks, shrink \in CanvasShrinks :
        LET rectWidth  == canvasWidth(eScale) \div shrink
            rectHeight == canvasHeight(eScale) \div shrink
            scaleX     == canvasWidth(eScale) \div rectWidth
            scaleY     == canvasHeight(eScale) \div rectHeight
            pdfX       == click[1] * scaleX
            pdfY       == click[2] * scaleY
            clicked    == clickedItem(eTextItems, eCurrentPage, pdfX, pdfY)
            existing   == existingEdit(eEdits, eCurrentPage, eTextItems[clicked])
            id         == Len(eClicks) + 1
        IN  /\ eEvents < MaxEditEvents
            /\ eFile # NullFile /\ ePdfDoc # NullFile
            /\ click[1] < rectWidth /\ click[2] < rectHeight
            /\ eEvents' = eEvents + 1
            /\ eClicks' = Append(eClicks, [cx |-> pdfX, cy |-> pdfY, scale |-> eScale,
                                           page |-> eCurrentPage])
            /\ IF clicked # 0 /\ existing # 0
                   THEN /\ eEditingId' = eEdits[existing].id
                        /\ eEdits' = eEdits
               ELSE IF clicked # 0
                   THEN /\ eEdits' = Append(eEdits,
                                [id |-> id, pageNumber |-> eCurrentPage,
                                 originalText |-> eTextItems[clicked].text,
                                 editedText |-> eTextItems[clicked].text,
                                 x |-> eTextItems[clicked].x, y |-> eTextItems[clicked].y,
                                 fontSize |-> orDefault(eTextItems[clicked].fontSize, 12)])
                        /\ eEditingId' = id
               ELSE /\ eEdits' = Append(eEdits,
                            [id |-> id, pageNumber |-> eCurrentPage,
                             originalText |-> NullText, editedText |-> <<>>,
                             x |-> pdfX, y |-> pdfY, fontSize |-> 12])
                    /\ eEditingId' = id
            /\ UNCHANGED <<eFile, ePdfDoc, eCurrentPage, ePageCount, eTextItems, eScale,
                           eError, eLoads>>
            /\ EditFrame

NextEdit ==
    \/ EditSelectFile
    \/ EditLoadSettles
    \/ EditZoom
    \/ EditTurnPage
    \/ EditHandleCanvasClick

SpecEdit == InitEdit /\ [][NextEdit]_vars

\* whether the canvas pixel of a click lies in the box of a text item as it
\* is drawn at the zoom of the click, the box widened by margin on every side
InRenderedBox(click, item, margin) ==
    /\ item.page = click.page
    /\ click.cx * 4 >= (item.x - margin) * click.scale
    /\ click.cx * 4 <= (item.x + item.width + margin) * click.scale
    /\ click.cy * 4 >= (item.y - margin) * click.scale
    /\ click.cy * 4 <= (item.y + item.height + margin) * click.scale

\* the edit that is open after a click
OpenEdit(edits, id) == edits[CHOOSE k \in 1..Len(edits) : edits[k].id = id]

\* C18 as stated: a click inside the drawn box of a text item opens an edit
\* of a text item whose widened box holds the click, and a click outside the
\* widened drawn box of every text item opens a new empty text entry at the
\* click.
C18_ClickHitsDrawnText ==
    [][Len(eClicks') = Len(eClicks) + 1 =>
          LET click == eClicks'[Len(eClicks')]
              open  == OpenEdit(eEdits', eEditingId')
          IN  /\ (\E k \in 1..Len(eTextItems) : InRenderedBox(click, eTextItems[k], 0)) =>
                     \E k \in 1..Len(eTextItems) :
                         /\ InRenderedBox(click, eTextItems[k], tolerance)
                         /\ open.originalText = eTextItems[k].text
                         /\ open.x = eTextItems[k].x /\ open.y = eTextItems[k].y
              /\ (\A k \in 1..Len(eTextItems) : ~InRenderedBox(click, eTextItems[k], tolerance)) =>
                     /\ open.originalText = NullText
                     /\ open.editedText = <<>>
                     /\ open.x = click.cx /\ open.y = click.cy]_vars

(***************************************************************************)
(* Specification SpecNetwork: where the bytes of a selected file go.       *)
(* Every value carries the set of files it was computed from.              *)
(***************************************************************************)

\* most user events in a behaviour
MaxNetworkEvents == 5

NetworkFiles == {PdfFile("P", 1), PdfFile("Q", 2), BadFile("X")}

\* the tool pages: merge works with pdf-lib alone, the page manager loads
\* the file into pdf.js for thumbnails and writes with pdf-lib, PDF to
\* images renders with pdf.js
NetworkTools == {"merge", "page-manager", "pdf-to-images"}

UsesPdfJs(tool) == tool \in {"page-manager", "pdf-to-images"}

\* a value: what it is and the files it derives from
Value(what, from) == [what |-> what, from |-> from]

\* a URL: its scheme, its host and the files its text derives from
Url(scheme, host, from) == [scheme |-> scheme, host |-> host, from |-> from]

\* new Uint8Array(await file.arrayBuffer()), readFileAsArrayBuffer(file)
fileBytes(file) == Value("bytes", {file.name})

\* `https://unpkg.com/pdfjs-dist@${pdfjsLib.version}/build/pdf.worker.min.mjs`
workerSrc == Url("https", "unpkg.com", {})

\* canvas.toDataURL(...) of a canvas the page was rendered on
toDataURL(canvas) == Url("data", "", canvas.from)

\* URL.createObjectURL(blob)
createObjectURL(blob) == Url("blob", "", blob.from)

\* what loading a URL would ask of a network that served every scheme: the
\* request shows the URL and the body sent
requestsOfAnyScheme(url, body) ==
    <<[host |-> url.host, method |-> IF body.what = "none" THEN "GET" ELSE "POST",
       from |-> url.from \cup body.from]>>

\* what loading a URL asks of the network: a data: or blob: URL is read in
\* the browser, any other URL is requested from its host, the request showing
\* the URL and the body sent
requestsOf(url, body) ==
    IF url.scheme \in {"data", "blob"} THEN <<>>
    ELSE <<[host |-> url.host, method |-> IF body.what = "none" THEN "GET" ELSE "POST",
            from |-> url.from \cup body.from]>>

NoBody == Value("none", {})

\* fetch(imageData): the requests made and the response
fetch(url) ==
    [requests |-> requestsOf(url, NoBody), response |-> Value("blob", url.from)]

\* pdfjsLib.getDocument({ data }): the worker script is loaded from
\* workerSrc and the data is posted to the worker
getDocumentRequests(data) == requestsOf(workerSrc, NoBody)

\* a.href = url; a.download = filename; a.click(): the file saved
anchorDownload(url) == [from |-> url.from]

NetworkFrame ==
    UNCHANGED <<rangeVars, helperVars, splitVars, mergeVars, managerVars, rotateVars,
                numbersVars, imagesVars, outVars, textVars, annotateVars, editVars, extractTextVars>>

InitNetwork ==
    /\ IdleRanges
    /\ IdleHelpers
    /\ MountedSplit
    /\ MountedMerge
    /\ MountedManager
    /\ IdleRotate
    /\ MountedNumbers
    /\ MountedImages
    /\ MountedOut
    /\ IdleText
    /\ MountedAnnotate
    /\ MountedEdit
    /\ IdleNetwork
    /\ MountedExtractText

\* opening a tool page from the homepage or from another tool
NetworkOpenTool ==
    \E tool \in NetworkTools :
        /\ wEvents < MaxNetworkEvents
        /\ wEvents' = wEvents + 1
        /\ wTool' = tool
        /\ wFile' = NullFile
        /\ wLoaded' = FALSE
        /\ UNCHANGED <<wRequests, wDownloads>>
        /\ NetworkFrame

\* onFilesSelected and, on the pages that use pdf.js, the load effect:
\* workerSrc is set and getDocument gets the bytes of the file
NetworkSelectFile ==
    \E f \in NetworkFiles :
        /\ wEvents < MaxNetworkEvents
        /\ wTool \in NetworkTools
        /\ wEvents' = wEvents + 1
        /\ wFile' = f
        /\ IF UsesPdfJs(wTool)
               THEN /\ wRequests' = wRequests \o getDocumentRequests(fileBytes(f))
                    /\ wLoaded' = f.valid
           ELSE /\ wRequests' = wRequests
                /\ wLoaded' = FALSE
        /\ wDownloads' = wDownloads
        /\ wTool' = wTool
        /\ NetworkFrame

\* the generate buttons of merge and of the page manager: pdf-lib reads the
\* bytes, writes the new document, and downloadBlob saves it
NetworkGenerate ==
    /\ wEvents < MaxNetworkEvents
    /\ wTool \in {"merge", "page-manager"}
    /\ wFile # NullFile
    /\ wTool = "page-manager" => wLoaded
    /\ wEvents' = wEvents + 1
    /\ LET loaded == loadPdfDocument(wFile)
           data   == Value("bytes", fileBytes(wFile).from)
           blob   == Value("blob", data.from)
       IN  IF loaded.threw THEN wDownloads' = wDownloads
           ELSE wDownloads' = Append(wDownloads, anchorDownload(createObjectURL(blob)))
    /\ UNCHANGED <<wTool, wFile, wLoaded, wRequests>>
    /\ NetworkFrame

\* downloadAllPages of PDF to images for one page: the page is rendered on a
\* canvas, the canvas read as a data URL, the URL fetched as a blob and saved
NetworkDownloadPage ==
    /\ wEvents < MaxNetworkEvents
    /\ wTool = "pdf-to-images"
    /\ wFile # NullFile /\ wLoaded
    /\ wEvents' = wEvents + 1
    /\ LET canvas    == Value("canvas", {wFile.name})
           imageData == toDataURL(canvas)
           fetched   == fetch(imageData)
       IN  /\ wRequests' = wRequests \o fetched.requests
           /\ wDownloads' = Append(wDownloads,
                                   anchorDownload(createObjectURL(fetched.response)))
    /\ UNCHANGED <<wTool, wFile, wLoaded>>
    /\ NetworkFrame

NextNetwork ==
    \/ NetworkOpenTool
    \/ NetworkSelectFile
    \/ NetworkGenerate
    \/ NetworkDownloadPage

SpecNetwork == InitNetwork /\ [][NextNetwork]_vars

RefMalformed(s) == \E k \in 1..RefFieldCount(s) : RefShape(s, k).kind = "other"

\* C20 as stated: both copies of parseRanges throw when some non-empty part
\* is not exactly a decimal integer or two decimal integers joined by "-",
\* and return the empty list for a blank input.
C20_MalformedPartThrows ==
    called =>
        /\ RefMalformed(input) => result.threw
        /\ RefStrip(input) = <<>> => result = Returned(<<>>)

(***************************************************************************)
(* The pairs parseRanges returns, under SpecRanges                         *)
(***************************************************************************)

\* C21: every pair [s,e] either copy of parseRanges returns satisfies
\* 1 <= s <= e <= maxPage, so the 0-based indices s-1..e-1 the split and
\* extract handlers pass on lie in 0..maxPage-1.
C21_PairsWithinPageCount ==
    (called /\ ~result.threw) =>
        /\ RangesWithin(result.ranges, maxPage)
        /\ \A k \in 1..Len(result.ranges) :
               \A i \in (result.ranges[k][1] - 1)..(result.ranges[k][2] - 1) :
                   0 <= i /\ i <= maxPage - 1

\* a span that ends at the page count was parsed next to
\* another part
C21_Witness ==
    /\ called
    /\ ~result.threw
    /\ Len(result.ranges) >= 2
    /\ includes(input, "-")
    /\ \E k \in 1..Len(result.ranges) :
           result.ranges[k][1] < result.ranges[k][2] /\ result.ranges[k][2] = maxPage

(***************************************************************************)
(* Specification SpecExtractText: the extract text page                    *)
(***************************************************************************)

\* most user events in a behaviour
MaxExtractTextEvents == 4

\* the files offered: V with two lines of text on its one page, W with one
\* item on each of two pages, and bytes that are not a PDF
ExtractTextFiles == {PdfFile("V", 1), PdfFile("W", 2), BadFile("X")}

\* page.getTextContent().items of the pages of a file
fileTextItems(file) ==
    IF file.name = "V"
        THEN << <<[str |-> "a", x |-> 0, y |-> 90], [str |-> "b", x |-> 0, y |-> 10]>> >>
    ELSE << <<[str |-> "c", x |-> 0, y |-> 90]>>, <<[str |-> "d", x |-> 30, y |-> 90]>> >>

\* the ways await extractTextFromPdf(file) can settle
extractTextOutcomes(file) ==
    IF ~file.valid THEN {Rejected(<<"Invalid PDF structure.">>)}
    ELSE {Fulfilled(content) : content \in extractTextFromPdf(fileTextItems(file))}

ExtractTextFrame ==
    UNCHANGED <<rangeVars, helperVars, splitVars, mergeVars, managerVars, rotateVars,
                numbersVars, imagesVars, outVars, textVars, annotateVars, editVars,
                networkVars>>

InitExtractText ==
    /\ IdleRanges
    /\ IdleHelpers
    /\ MountedSplit
    /\ MountedMerge
    /\ MountedManager
    /\ IdleRotate
    /\ MountedNumbers
    /\ MountedImages
    /\ MountedOut
    /\ IdleText
    /\ MountedAnnotate
    /\ MountedEdit
    /\ IdleNetwork
    /\ MountedExtractText

\* onFilesSelected: setFile(files[0] ?? null) and
\* setState({ text: "", error: null, isProcessing: false })
ExtractTextSelectFile ==
    \E f \in ExtractTextFiles \cup {NullFile} :
        /\ tEvents < MaxExtractTextEvents
        /\ tEvents' = tEvents + 1
        /\ tFile' = f
        /\ tText' = <<>>
        /\ tError' = NoError
        /\ tIsProcessing' = FALSE
        /\ UNCHANGED <<tRun, tStarted, tDownloads>>
        /\ ExtractTextFrame

\* handleExtract up to its await; the button is disabled while processing
\* and without a file
ExtractTextHandleExtract ==
    /\ tEvents < MaxExtractTextEvents
    /\ ~tIsProcessing /\ tFile # NullFile
    /\ tEvents' = tEvents + 1
    /\ tText' = <<>>
    /\ tError' = NoError
    /\ tIsProcessing' = TRUE
    /\ tStarted' = tStarted + 1
    /\ tRun' = tRun \cup {[id |-> tStarted + 1, file |-> tFile]}
    /\ UNCHANGED <<tFile, tDownloads>>
    /\ ExtractTextFrame

\* handleExtract after extractTextFromPdf settles
ExtractTextRunSettles ==
    \E run \in tRun :
        \E content \in extractTextOutcomes(run.file) :
            /\ tRun' = tRun \ {run}
            /\ IF content.threw
                   THEN tText' = <<>> /\ tError' = content.message
               ELSE tText' = content.value /\ tError' = NoError
            /\ tIsProcessing' = FALSE
            /\ UNCHANGED <<tFile, tStarted, tDownloads, tEvents>>
            /\ ExtractTextFrame

\* handleDownloadTxt; the button is disabled without text
ExtractTextDownloadTxt ==
    /\ tEvents < MaxExtractTextEvents
    /\ tText # <<>>
    /\ tEvents' = tEvents + 1
    /\ tDownloads' = Append(tDownloads, tText)
    /\ UNCHANGED <<tFile, tText, tError, tIsProcessing, tRun, tStarted>>
    /\ ExtractTextFrame

NextExtractText ==
    \/ ExtractTextSelectFile
    \/ ExtractTextHandleExtract
    \/ ExtractTextRunSettles
    \/ ExtractTextDownloadTxt

SpecExtractText ==
    InitExtractText /\ [][NextExtractText]_vars /\ WF_vars(ExtractTextRunSettles)

\* C22 as stated, on the extract text page: the processing flag is true for
\* the whole of every run of the action handler, and two runs of the handler
\* never overlap.
C22_RunsDoNotOverlap ==
    /\ tRun # {} => tIsProcessing
    /\ Cardinality(tRun) <= 1

(***************************************************************************)
(* The page count of the split page, under SpecSplit                       *)
(***************************************************************************)

\* C23 as stated, on the split page: once every pending load has settled,
\* pageCount is the page count of the file held in state, and there is no
\* page count when that file could not be loaded.
C23_PageCountOfCurrentFile ==
    (sLoads = {} /\ sFile # NullFile) =>
        IF sFile.valid THEN sPageCount = Len(sFile.rots)
        ELSE NoPageCount(sPageCount)

(***************************************************************************)
(* The edits of the edit PDF page and the file they are applied to, under  *)
(* SpecEdit                                                                *)
(***************************************************************************)

\* C24 as stated: once the pending loads have settled, every edit in state
\* has its pageNumber within 1..pageCount of the file in state, the file
\* that Apply will load.
C24_EditsWithinLoadedFile ==
    (eLoads = {} /\ eFile.valid) =>
        \A k \in 1..Len(eEdits) :
            1 <= eEdits[k].pageNumber /\ eEdits[k].pageNumber <= Len(eFile.rots)

(***************************************************************************)
(* The thumbnails and the list of the page manager, under SpecManager      *)
(***************************************************************************)

\* C25 as stated: once loading and thumbnail generation have settled, the
\* thumbnail of every list item is the rendering of the item's own pageIndex
\* of the loaded document at the item's rotation.
C25_ThumbnailOfOwnPage ==
    (~pCrashed /\ pPdfDoc # NullFile /\ pLoads = {} /\ pThumbs = {} /\ pRotates = {}) =>
        \A k \in 1..Len(pPages) :
            pPages[k].thumbnail = [doc |-> pPdfDoc.name, idx |-> pPages[k].pageIndex,
                                   rotation |-> pPages[k].rotation]

\* C26 as stated: the list of the page manager never holds an undefined
\* entry, never has more items than the loaded document has pages, and its
\* items have pairwise distinct ids and pairwise distinct pageIndex values
\* within 0..N-1, N the page count of the loaded document.
C26_ListWellFormed ==
    pPdfDoc # NullFile =>
        /\ \A k \in 1..Len(pPages) : pPages[k] # UndefinedPage
        /\ Len(pPages) <= pPageCount
        /\ \A k \in 1..Len(pPages) :
               /\ 0 <= pPages[k].pageIndex /\ pPages[k].pageIndex <= pPageCount - 1
               /\ \A j \in 1..Len(pPages) :
                      j # k => /\ pPages[j].id # pPages[k].id
                               /\ pPages[j].pageIndex # pPages[k].pageIndex

\* C27: on the viewer pages currentPage is an integer with
\* 1 <= currentPage <= pageCount whenever the navigation controls can be
\* clicked, and the zoom scale stays within 0.5..3; on the edit PDF page the
\* controls are rendered as soon as a file is selected, and the state is
\* looked at once every load has completed or failed
C27_NavigationWithinBounds ==
    eFile # NullFile /\ eLoads = {} =>
        /\ eCurrentPage \in 1..ePageCount
        /\ eScale \in 2..12

(***************************************************************************)
(* Escape in the input of an annotation, under SpecAnnotate                *)
(***************************************************************************)

\* the annotation with the id in a list that holds it
AnnotationOf(annotations, id) ==
    annotations[CHOOSE k \in 1..Len(annotations) : annotations[k].id = id]

\* whether a list holds an annotation with the id
HasAnnotation(annotations, id) ==
    \E k \in 1..Len(annotations) : annotations[k].id = id

\* C28: pressing Escape while editing an item cancels that edit: an item
\* that was newly created by the click is removed, an item that existed
\* before editing began gets back the text it had when editing began, every
\* other item in the list is unchanged, and no item is in editing mode
\* afterwards.
C28_EscapeCancels ==
    [][(Len(aKeys') = Len(aKeys) + 1 /\ aKeys'[Len(aKeys')] = "Escape") =>
          /\ ~HasAnnotation(aAnnotations', aEditingId')
          /\ IF HasAnnotation(aEditStart, aEditingId)
                 THEN aAnnotations' =
                          [k \in 1..Len(aAnnotations) |->
                              IF aAnnotations[k].id = aEditingId
                                  THEN [aAnnotations[k] EXCEPT
                                           !.text = AnnotationOf(aEditStart, aEditingId).text]
                              ELSE aAnnotations[k]]
             ELSE aAnnotations' = filterOut(aAnnotations, aAnnotations, aEditingId)]_vars

(***************************************************************************)
(* reorder on the lists of the merge page, under SpecMerge                 *)
(***************************************************************************)

\* a sequence without its element at the 1-based place k
Without(seq, k) ==
    [n \in 1..(Len(seq) - 1) |-> IF n < k THEN seq[n] ELSE seq[n + 1]]

\* how often x occurs in a sequence
Occurrences(seq, x) == Cardinality({k \in 1..Len(seq) : seq[k] = x})

\* C29: for every list the merge page can hold and all 0 <= i, j < length,
\* reorder(list, i, j) is a permutation of the list with the same length,
\* the element that was at index i is at index j, all other elements keep
\* their relative order, and reorder(list, i, i) equals the list.
C29_ReorderMovesOneElement ==
    \A i, j \in 0..(Len(mItems) - 1) :
        LET moved == reorder(mItems, i, j)
        IN  /\ Len(moved) = Len(mItems)
            /\ \A k \in 1..Len(mItems) :
                   Occurrences(moved, mItems[k]) = Occurrences(mItems, mItems[k])
            /\ moved[j + 1] = mItems[i + 1]
            /\ Without(moved, j + 1) = Without(mItems, i + 1)
            /\ (i = j => moved = mItems)

\* three files were selected as B, A, B and the first was dropped on the last
C29_Witness ==
    /\ Len(mItems) = 3
    /\ mItems[1].id = <<0, 1, "A">>
    /\ mItems[2].id = <<0, 2, "B">>
    /\ mItems[3].id = <<0, 0, "B">>
    /\ mDragIndex = NullIndex

====
